---- MODULE Spec2Model ----
(***************************************************************************)
(* Model of chrome-troubleshooter: the single-instance lock of             *)
(* ChromeLauncher (launcher.py), the stage loop of                         *)
(* ChromeLauncher.run_troubleshooting_session, the stage loop of           *)
(* AsyncChromeLauncher.launch_with_concurrent_diagnostics                  *)
(* (async_launcher.py) and the lock-file guard of the CLI entry points     *)
(* main() / cli_main() (cli_simple.py, cli_typer.py).                      *)
(*                                                                         *)
(* Process Orch runs whole sessions.  The processes in Users are other     *)
(* instances: they call acquire_lock / release_lock around a session body  *)
(* that touches no shared state, so their body is the single state         *)
(* "holding".                                                              *)
(*   SpecLock : all Users race on the lock (Orch does not run).            *)
(*   SpecCli  : every process is an invocation of main() / cli_main().     *)
(*   Spec     : Orch runs sessions while one other instance, Rival, races  *)
(*              with it on the lock.                                       *)
(***************************************************************************)
EXTENDS Integers, Naturals, Sequences, FiniteSets, TLC

\* ------------------------------------------------------------------ bounds
NumUsers == 2
MaxAttemptsBound == 4
MaxExitCode == 2
MaxStderrLen == 3
NumThreads == 2
MaxCalls == 3
MaxWrapperCalls == 1
MaxWindow == 3

Users == 1..NumUsers
Orch == NumUsers + 1
Rival == CHOOSE u \in Users : \A v \in Users : u <= v
Procs == Users \cup {Orch}
Inodes == 1..(NumUsers + 2)
NoFile == 0
None == 0
Empty == 0

VARIABLES
    pc,               \* position of each process in its code
    lock_file,        \* inode linked at /tmp/.chrome_troubleshooter.lock, or NoFile
    inode_data,       \* content of each inode: Empty or the pid written into it
    flock_owner,      \* process whose open file description holds LOCK_EX on the inode
    ofd,              \* inode of the descriptor each process has open on the lock file
    lock_fd,          \* ChromeLauncher.lock_fd of each process's launcher
    launch_stages,    \* Orch: the stage list built by the launcher's constructor
    max_attempts,     \* Orch: config.max_attempts of the run
    i,                \* Orch: loop variable (i of the sync loop, attempt_num of the async loop)
    chrome_process,   \* Orch: the child of the attempt in flight: "none", "running", "exited"
    attempts,         \* Orch: the Attempts of the run, in the order they were made
    outcome,          \* Orch: outcome of the last launch of the run
    sweeps,           \* Orch: number of full_diagnostic_sweep calls of the run
    fallback,         \* Orch: whether the Flatpak fallback was invoked in the run
    returned,         \* Orch: the return statement by which the run ended, or "none"
    ctx,              \* Orch: the frame release_lock was called from
    diagnostics_task, \* Orch: the side-channel task of the async launcher
    failure_logged,   \* Orch: numbers of the attempts whose failure was written to the log
    cancelled,        \* Orch: an external cancellation arrived during the run
    group_alive,      \* Orch: processes of a child's process group other than the child are alive
    elapsed,          \* Orch: time.sleep(launch_timeout) of launch_chrome_stage has returned
    child_status,     \* SpecRecord: exit code and stderr bytes of a child that exited early
    attempt_record,   \* SpecRecord: what the launcher keeps of the failed attempt
    snapshot,         \* SpecStages: the system_info dict the stage list is built from
    stages,           \* SpecStages: the list _build_launch_stages returned
    stages_again,     \* SpecStages: the list a second call returned
    host,             \* SpecHost: what the machine reports to the commands the collector runs
    cmd,              \* SpecHost: the stage and the command line launch_chrome_stage built for it
    scenario,         \* logger: who calls the logger, how often and with which arguments
    lpc,              \* logger: where each thread is in StructuredLogger.log
    call,             \* logger: the arguments and timestamp of each thread's call in progress
    lock_owner,       \* logger: the thread inside `with self._lock`, 0 if none
    log_count,        \* logger: self.log_count
    text_log,         \* logger: the lines of launcher.log
    sqlite_rows,      \* logger: the rows of the logs table
    jsonl_lines,      \* logger: the lines of logs.jsonl
    enable_sqlite,    \* logger: self.enable_sqlite
    enable_json,      \* logger: self.enable_json
    health,           \* logger: per sink, whether the file system and the store still accept writes
    warnings,         \* logger: per message, how often it was printed to stderr
    tally,            \* logger: calls issued, returned and raised so far, and the last call returned
    dpc,              \* diagnostics task: where _collect_concurrent_diagnostics is
    helper,           \* diagnostics task: state of the dmesg and journalctl processes it spawned
    window,           \* diagnostics task: seconds spent in the current monitoring loop
    cancel_requested, \* diagnostics task: cancel() was called and is not delivered yet
    environ,          \* configuration: CT_LAUNCH_TIMEOUT and CT_MAX_ATTEMPTS of the environment
    config_data,      \* configuration: the settings found in the JSON config file
    config,           \* configuration: the Config object of the CLI process
    cfg_pc,           \* configuration: how far the CLI got: main, loaded, launcher
    cache_dir,        \* rotation: the session_* directories under session_dir.parent
    archives,         \* rotation: the sessions a <name>.tar.gz was made of
    ctor,             \* rotation: the StructuredLogger being constructed and used
    sys_stdout,       \* logger: what sys.stdout and sys.stderr are bound to
    capture,          \* logger: the capture_output block open, its thread and saved stream
    closer            \* logger: the thread inside close(), and whether the store was closed

lockVars == <<lock_file, inode_data, flock_owner, ofd, lock_fd>>
configVars == <<launch_stages, max_attempts>>
loopVars == <<i, chrome_process, attempts, outcome, sweeps, fallback>>
traceVars == <<failure_logged, cancelled, group_alive, elapsed>>
orchVars == <<configVars, loopVars, returned, ctx, diagnostics_task, traceVars>>
recordVars == <<child_status, attempt_record>>
stageVars == <<snapshot, stages, stages_again>>
hostVars == <<host, cmd>>
loggerVars == <<scenario, lpc, call, lock_owner, log_count, text_log, sqlite_rows,
                jsonl_lines, enable_sqlite, enable_json, health, warnings, tally>>
diagVars == <<dpc, helper, window, cancel_requested>>
cfgVars == <<environ, config_data, config, cfg_pc>>
rotVars == <<cache_dir, archives, ctor>>
sessVars == <<sys_stdout, capture, closer>>
auxVars == <<diagVars, cfgVars, rotVars, sessVars>>
outsideSess == <<pc, lockVars, orchVars, recordVars, stageVars, hostVars, diagVars, cfgVars, rotVars>>
outsideDiag == <<pc, lockVars, orchVars, recordVars, stageVars, hostVars, loggerVars, cfgVars, rotVars, sessVars>>
outsideCfg == <<pc, lockVars, orchVars, recordVars, stageVars, hostVars, loggerVars, diagVars, rotVars, sessVars>>
outsideRot == <<pc, lockVars, orchVars, recordVars, stageVars, hostVars, loggerVars, diagVars, cfgVars, sessVars>>
funcVars == <<recordVars, stageVars, hostVars, loggerVars, auxVars>>
vars == <<pc, lockVars, orchVars, funcVars>>

\* ------------------------------------------------------------ file system
\* An inode stays allocated while it is linked at the path or some process
\* still has it open.
InUse(ino) == lock_file = ino \/ \E p \in Procs : ofd[p] = ino

FreshInode ==
    CHOOSE ino \in Inodes : ~InUse(ino) /\ \A other \in Inodes : ~InUse(other) => ino <= other

\* An inode nobody links or has open is freed together with its content.
Reclaim(data, file, fds) ==
    [ino \in Inodes |->
        IF file = ino \/ (\E p \in Procs : fds[p] = ino) THEN data[ino] ELSE Empty]

\* The kernel drops a flock when the open file description is closed.
DropFlock(p) ==
    [ino \in Inodes |-> IF flock_owner[ino] = p THEN None ELSE flock_owner[ino]]

\* ------------------------------------------------------------ acquire_lock
\* Where a process continues after acquire_lock returned True / False.
AfterAcquireTrue(p) == IF p = Orch THEN "loop" ELSE "holding"

\* Variant: a failed acquire_lock does not end the session.
AfterAcquireFalse_proceed(p) == IF p = Orch THEN "loop" ELSE "idle"

AfterAcquireFalse(p) == IF p = Orch THEN "ctx_exit" ELSE "idle"

\* self.lock_file.touch(exist_ok=True)
acquire_touch(p) ==
    /\ pc[p] = "acq_touch"
    /\ IF lock_file = NoFile
       THEN /\ lock_file' = FreshInode
            /\ inode_data' = [inode_data EXCEPT ![FreshInode] = Empty]
       ELSE UNCHANGED <<lock_file, inode_data>>
    /\ pc' = [pc EXCEPT ![p] = "acq_open"]
    /\ UNCHANGED <<flock_owner, ofd, lock_fd>>
    /\ UNCHANGED orchVars
    /\ UNCHANGED funcVars

\* self.lock_fd = os.open(path, O_CREAT | O_WRONLY | O_TRUNC)
acquire_open(p) ==
    /\ pc[p] = "acq_open"
    /\ LET ino == IF lock_file = NoFile THEN FreshInode ELSE lock_file
       IN /\ lock_file' = ino
          /\ inode_data' = [inode_data EXCEPT ![ino] = Empty]
          /\ ofd' = [ofd EXCEPT ![p] = ino]
          /\ lock_fd' = [lock_fd EXCEPT ![p] = ino]
    /\ pc' = [pc EXCEPT ![p] = "acq_flock"]
    /\ UNCHANGED flock_owner
    /\ UNCHANGED orchVars
    /\ UNCHANGED funcVars

\* fcntl.flock(self.lock_fd, LOCK_EX | LOCK_NB); on BlockingIOError the
\* descriptor is closed, lock_fd is reset and the call returns False.
acquire_flock(p) ==
    /\ pc[p] = "acq_flock"
    /\ IF flock_owner[ofd[p]] = None
       THEN /\ flock_owner' = [flock_owner EXCEPT ![ofd[p]] = p]
            /\ pc' = [pc EXCEPT ![p] = "acq_write"]
            /\ UNCHANGED <<ofd, lock_fd>>
       ELSE /\ ofd' = [ofd EXCEPT ![p] = None]
            /\ lock_fd' = [lock_fd EXCEPT ![p] = None]
            /\ pc' = [pc EXCEPT ![p] = AfterAcquireFalse(p)]
            /\ UNCHANGED flock_owner
    /\ inode_data' = Reclaim(inode_data, lock_file, ofd')
    /\ returned' = IF p = Orch /\ flock_owner[ofd[p]] # None THEN "lock_failed" ELSE returned
    /\ UNCHANGED <<lock_file, configVars, loopVars, ctx, diagnostics_task>>
    /\ UNCHANGED traceVars
    /\ UNCHANGED funcVars

\* os.write(self.lock_fd, "pid:time"); os.fsync; return True
acquire_write(p) ==
    /\ pc[p] = "acq_write"
    /\ inode_data' = [inode_data EXCEPT ![ofd[p]] = p]
    /\ pc' = [pc EXCEPT ![p] = AfterAcquireTrue(p)]
    /\ UNCHANGED <<lock_file, flock_owner, ofd, lock_fd>>
    /\ UNCHANGED orchVars
    /\ UNCHANGED funcVars

\* ------------------------------------------------------------ release_lock
\* Where a process continues after release_lock returned.
AfterRelease(p) ==
    IF p # Orch THEN "idle" ELSE IF ctx = "exit" THEN "ctx_done" ELSE "ctx_exit"

\* if self.lock_fd is not None: fcntl.flock(self.lock_fd, LOCK_UN)
release_unlock(p) ==
    /\ pc[p] = "rel_unlock"
    /\ lock_fd[p] # None
    /\ flock_owner' = DropFlock(p)
    /\ pc' = [pc EXCEPT ![p] = "rel_close"]
    /\ UNCHANGED <<lock_file, inode_data, ofd, lock_fd>>
    /\ UNCHANGED orchVars
    /\ UNCHANGED funcVars

\* os.close(self.lock_fd)
release_close(p) ==
    /\ pc[p] = "rel_close"
    /\ ofd' = [ofd EXCEPT ![p] = None]
    /\ inode_data' = Reclaim(inode_data, lock_file, ofd')
    /\ pc' = [pc EXCEPT ![p] = "rel_unlink"]
    /\ UNCHANGED <<lock_file, flock_owner, lock_fd>>
    /\ UNCHANGED orchVars
    /\ UNCHANGED funcVars

\* self.lock_file.unlink(missing_ok=True); finally: self.lock_fd = None
release_unlink(p) ==
    /\ pc[p] = "rel_unlink"
    /\ lock_file' = NoFile
    /\ inode_data' = Reclaim(inode_data, NoFile, ofd)
    /\ lock_fd' = [lock_fd EXCEPT ![p] = None]
    /\ pc' = [pc EXCEPT ![p] = AfterRelease(p)]
    /\ UNCHANGED <<flock_owner, ofd>>
    /\ UNCHANGED orchVars
    /\ UNCHANGED funcVars

\* Variant: release_lock without its "lock_fd is not None" guard around the
\* unlink.
release_noop_unlinks(p) ==
    /\ pc[p] = "rel_unlock"
    /\ lock_fd[p] = None
    /\ lock_file' = NoFile
    /\ inode_data' = Reclaim(inode_data, NoFile, ofd)
    /\ pc' = [pc EXCEPT ![p] = AfterRelease(p)]
    /\ UNCHANGED <<flock_owner, ofd, lock_fd>>
    /\ UNCHANGED orchVars
    /\ UNCHANGED funcVars

\* release_lock on a launcher whose lock_fd is None: the body is skipped.
release_noop(p) ==
    /\ pc[p] = "rel_unlock"
    /\ lock_fd[p] = None
    /\ pc' = [pc EXCEPT ![p] = AfterRelease(p)]
    /\ UNCHANGED lockVars
    /\ UNCHANGED orchVars
    /\ UNCHANGED funcVars

\* -------------------------------------------- other instances (p # Orch)
\* launcher.acquire_lock() called on a launcher that holds no descriptor
call_acquire(p) ==
    /\ p # Orch
    /\ pc[p] = "idle"
    /\ pc' = [pc EXCEPT ![p] = "acq_touch"]
    /\ UNCHANGED lockVars
    /\ UNCHANGED orchVars
    /\ UNCHANGED funcVars

\* launcher.release_lock() called by an instance, whether or not its
\* launcher holds the lock
call_release(p) ==
    /\ p # Orch
    /\ pc[p] \in {"holding", "idle"}
    /\ pc' = [pc EXCEPT ![p] = "rel_unlock"]
    /\ UNCHANGED lockVars
    /\ UNCHANGED orchVars
    /\ UNCHANGED funcVars

\* ------------------------------------------------------------ stage list
\* dict.get(key, default)
Get(d, k, default) == IF k \in DOMAIN d THEN d[k] ELSE default

\* DiagnosticsCollector.get_system_info: the keys it fills from the host.
\* It sets no "gpu_vendor", "container_type" or "running_in_flatpak" key.
get_system_info(env) ==
    [k \in {"session_type", "selinux_status"} |->
        IF k = "session_type" THEN env.XDG_SESSION_TYPE ELSE env.getenforce]

Stage(n, f) == [name |-> n, flags |-> f]

\* A variant that appends the safe_mode stage before the Flatpak stage.
build_launch_stages_safe_mode_early(system_info) ==
    LET gpu_vendor == Get(system_info, "gpu_vendor", "unknown")
        vanilla == <<Stage("vanilla", <<>>)>>
        vendor ==
            IF gpu_vendor = "nvidia"
            THEN <<Stage("no_nvidia_vaapi",
                         <<"--disable-features=VaapiVideoDecoder,VaapiVideoEncoder">>)>>
            ELSE IF gpu_vendor = "amd"
            THEN <<Stage("no_amd_vaapi",
                         <<"--disable-features=VaapiVideoDecoder", "--disable-gpu-sandbox">>)>>
            ELSE <<>>
        no_gpu == <<Stage("no_gpu", <<"--disable-gpu", "--disable-gpu-sandbox">>)>>
        wayland ==
            IF Get(system_info, "session_type", "absent") = "wayland"
            THEN <<Stage("wayland_fallback",
                         <<"--disable-gpu", "--enable-features=UseOzonePlatform",
                           "--ozone-platform=wayland">>)>>
            ELSE <<>>
        selinux ==
            IF Get(system_info, "selinux_status", "unknown") = "enforcing"
            THEN <<Stage("selinux_compat",
                         <<"--disable-gpu", "--no-sandbox",
                           "--disable-seccomp-filter-sandbox">>)>>
            ELSE <<>>
        container ==
            IF Get(system_info, "container_type", "none") # "none"
            THEN <<Stage("container_mode",
                         <<"--disable-gpu", "--no-sandbox", "--disable-dev-shm-usage",
                           "--disable-setuid-sandbox">>)>>
            ELSE <<>>
        flatpak ==
            IF Get(system_info, "running_in_flatpak", FALSE)
            THEN <<Stage("flatpak_mode",
                         <<"--disable-gpu", "--no-sandbox",
                           "--disable-seccomp-filter-sandbox">>)>>
            ELSE <<>>
        safe_mode ==
            <<Stage("safe_mode",
                    <<"--disable-gpu", "--no-sandbox", "--disable-seccomp-filter-sandbox",
                      "--disable-dev-shm-usage", "--disable-setuid-sandbox",
                      "--disable-extensions", "--incognito">>)>>
    IN vanilla \o vendor \o no_gpu \o wayland \o selinux \o container \o safe_mode \o flatpak

\* ChromeLauncher._build_launch_stages
build_launch_stages(system_info) ==
    LET gpu_vendor == Get(system_info, "gpu_vendor", "unknown")
        vanilla == <<Stage("vanilla", <<>>)>>
        vendor ==
            IF gpu_vendor = "nvidia"
            THEN <<Stage("no_nvidia_vaapi",
                         <<"--disable-features=VaapiVideoDecoder,VaapiVideoEncoder">>)>>
            ELSE IF gpu_vendor = "amd"
            THEN <<Stage("no_amd_vaapi",
                         <<"--disable-features=VaapiVideoDecoder", "--disable-gpu-sandbox">>)>>
            ELSE <<>>
        no_gpu == <<Stage("no_gpu", <<"--disable-gpu", "--disable-gpu-sandbox">>)>>
        wayland ==
            IF Get(system_info, "session_type", "absent") = "wayland"
            THEN <<Stage("wayland_fallback",
                         <<"--disable-gpu", "--enable-features=UseOzonePlatform",
                           "--ozone-platform=wayland">>)>>
            ELSE <<>>
        selinux ==
            IF Get(system_info, "selinux_status", "unknown") = "enforcing"
            THEN <<Stage("selinux_compat",
                         <<"--disable-gpu", "--no-sandbox",
                           "--disable-seccomp-filter-sandbox">>)>>
            ELSE <<>>
        container ==
            IF Get(system_info, "container_type", "none") # "none"
            THEN <<Stage("container_mode",
                         <<"--disable-gpu", "--no-sandbox", "--disable-dev-shm-usage",
                           "--disable-setuid-sandbox">>)>>
            ELSE <<>>
        flatpak ==
            IF Get(system_info, "running_in_flatpak", FALSE)
            THEN <<Stage("flatpak_mode",
                         <<"--disable-gpu", "--no-sandbox",
                           "--disable-seccomp-filter-sandbox">>)>>
            ELSE <<>>
        safe_mode ==
            <<Stage("safe_mode",
                    <<"--disable-gpu", "--no-sandbox", "--disable-seccomp-filter-sandbox",
                      "--disable-dev-shm-usage", "--disable-setuid-sandbox",
                      "--disable-extensions", "--incognito">>)>>
    IN vanilla \o vendor \o no_gpu \o wayland \o selinux \o container \o flatpak \o safe_mode

\* The dicts a diagnostics collector can hand to _build_launch_stages: each
\* key the function reads is absent or holds one of the values it tells apart.
KeyValues ==
    [gpu_vendor |-> {"nvidia", "amd", "intel"},
     session_type |-> {"wayland", "x11"},
     selinux_status |-> {"enforcing", "Enforcing", "Permissive"},
     container_type |-> {"none", "docker"}]

\* the dicts over the string-valued keys
StringInfos ==
    UNION {{d \in [K -> UNION {KeyValues[k] : k \in K}] : \A k \in K : d[k] \in KeyValues[k]} :
           K \in SUBSET DOMAIN KeyValues}

\* d with the key "running_in_flatpak" set to b
WithFlatpak(d, b) ==
    [k \in DOMAIN d \cup {"running_in_flatpak"} |->
        IF k = "running_in_flatpak" THEN b ELSE d[k]]

SystemInfos ==
    StringInfos \cup {WithFlatpak(d, b) : d \in StringInfos, b \in BOOLEAN}

\* self.launch_stages = self._build_launch_stages()
build_stages ==
    /\ stages = <<>>
    /\ stages' = build_launch_stages(snapshot)
    /\ UNCHANGED <<pc, lockVars, orchVars, recordVars, hostVars, loggerVars, snapshot, stages_again, auxVars>>

\* a second call of _build_launch_stages on the same system_info
rebuild_stages ==
    /\ stages # <<>>
    /\ stages_again = <<>>
    /\ stages_again' = build_launch_stages(snapshot)
    /\ UNCHANGED <<pc, lockVars, orchVars, recordVars, hostVars, loggerVars, snapshot, stages, auxVars>>

\* ------------------------------------------------- the launcher on a host
\* What the machine answers to the probes of DiagnosticsCollector, and what it
\* is without being probed: the first VGA line of lspci, whether ldconfig
\* lists nvidia-vaapi, whether vainfo reports VA-API, the container runtime
\* and the Flatpak sandbox the process runs in, and config.extra_flags.
Hosts ==
    [XDG_SESSION_TYPE : {"wayland", "x11"},
     getenforce : {"Enforcing", "Permissive", "unknown"},
     lspci : {"nvidia", "amd", "intel", "none"},
     nvidia_vaapi : BOOLEAN,
     vaapi_available : BOOLEAN,
     container : {"none", "docker"},
     flatpak : BOOLEAN,
     extra_flags : {<<>>, <<"--incognito">>}]

NoHost == [XDG_SESSION_TYPE |-> "x11"]
NoCommand == [stage |-> 0, argv |-> <<>>]

\* DiagnosticsCollector.get_gpu_info: the keys detect_environment reads.
\* "primary_gpu_vendor" is set when lspci lists a GPU, and
\* "nvidia_vaapi_available" only for an NVIDIA GPU.
get_gpu_info(h) ==
    IF h.lspci = "none" THEN [vaapi_available |-> h.vaapi_available]
    ELSE IF h.lspci = "nvidia"
    THEN [primary_gpu_vendor |-> "nvidia", vaapi_available |-> h.vaapi_available,
          nvidia_vaapi_available |-> h.nvidia_vaapi]
    ELSE [primary_gpu_vendor |-> h.lspci, vaapi_available |-> h.vaapi_available]

\* ChromeLauncher.detect_environment: base_flags and environment_flags
detect_environment(h) ==
    LET env_info == get_system_info(h)
        gpu_info == get_gpu_info(h)
        wayland ==
            IF Get(env_info, "session_type", "unknown") = "wayland"
            THEN <<"--ozone-platform=x11", "--disable-features=UseOzonePlatform">>
            ELSE <<>>
        nvidia ==
            IF /\ Get(gpu_info, "primary_gpu_vendor", "unknown") = "nvidia"
               /\ ~Get(gpu_info, "nvidia_vaapi_available", FALSE)
            THEN <<"--disable-gpu", "--disable-features=VaapiVideoDecoder">>
            ELSE <<>>
    IN [base_flags |-> <<"--enable-logging=stderr", "--v=1">> \o h.extra_flags,
        environment_flags |-> wayland \o nvidia]

\* launch_chrome_stage: cmd = [chrome_exe] + base_flags + environment_flags
\* + stage["flags"]
command_line(stage, env_adjustments) ==
    <<"chrome_exe">> \o env_adjustments.base_flags
        \o env_adjustments.environment_flags \o stage.flags

\* ChromeLauncher(config, logger): the collector is created and the stage
\* list is built from what get_system_info returns on this host.
construct_launcher ==
    /\ stages = <<>>
    /\ snapshot' = get_system_info(host)
    /\ stages' = build_launch_stages(snapshot')
    /\ UNCHANGED <<pc, lockVars, orchVars, recordVars, hostVars, loggerVars, stages_again, auxVars>>

\* launch_chrome_stage(stage, env_adjustments) up to the Popen call, for one
\* stage of the list
build_command ==
    /\ stages # <<>>
    /\ cmd = NoCommand
    /\ \E k \in 1..Len(stages) :
          cmd' = [stage |-> k, argv |-> command_line(stages[k], detect_environment(host))]
    /\ UNCHANGED <<pc, lockVars, orchVars, recordVars, stageVars, loggerVars, host, auxVars>>

\* The strategies of AsyncChromeLauncher.launch_with_concurrent_diagnostics
strategies ==
    << Stage("vanilla", <<>>),
       Stage("no_gpu", <<"--disable-gpu">>),
       Stage("no_vaapi", <<"--disable-gpu", "--disable-features=VaapiVideoDecoder">>),
       Stage("safe_mode", <<"--disable-gpu", "--no-sandbox", "--incognito">>) >>

\* Host snapshots a launcher can be constructed on.
EnvSnapshots ==
    [XDG_SESSION_TYPE : {"wayland", "x11"}, getenforce : {"Enforcing", "Permissive"}]

\* config.max_attempts as it reaches the launcher (handle_launch overwrites
\* the validated value with the command-line argument).
MaxAttemptsInputs == (-1)..MaxAttemptsBound

\* LaunchAttempt(attempt_number, strategy, success)
LaunchAttempt(n, stage, ok) == [attempt_number |-> n, strategy |-> stage.name, success |-> ok]

Min(a, b) == IF a <= b THEN a ELSE b

\* AsyncChromeLauncher.get_launch_summary
get_launch_summary ==
    [total_attempts |-> Len(attempts),
     successful |-> \E k \in 1..Len(attempts) : attempts[k].success]

\* The Orch state of a freshly started process: no launcher, no run.
FreshRun ==
    /\ launch_stages' = <<>>
    /\ max_attempts' = 0
    /\ i' = 0
    /\ chrome_process' = "none"
    /\ attempts' = <<>>
    /\ outcome' = "none"
    /\ sweeps' = 0
    /\ fallback' = FALSE
    /\ returned' = "none"
    /\ ctx' = "session"
    /\ diagnostics_task' = "none"
    /\ failure_logged' = {}
    /\ cancelled' = FALSE
    /\ group_alive' = FALSE
    /\ elapsed' = FALSE

\* ------------------------- ChromeLauncher.run_troubleshooting_session (Orch)
\* handle_launch: with ChromeLauncher(config, logger) as launcher:
\*   launcher.run_troubleshooting_session(), which first calls acquire_lock.
start_session ==
    /\ pc[Orch] = "idle"
    /\ \E env \in EnvSnapshots, m \in MaxAttemptsInputs :
        /\ launch_stages' = build_launch_stages(get_system_info(env))
        /\ max_attempts' = m
    /\ pc' = [pc EXCEPT ![Orch] = "acq_touch"]
    /\ UNCHANGED <<lockVars, loopVars, returned, ctx, diagnostics_task>>
    /\ UNCHANGED traceVars
    /\ UNCHANGED funcVars

\* Variant: the cap test off by one (i > max_attempts).
loop_head_off_by_one ==
    /\ pc[Orch] = "loop"
    /\ pc' = [pc EXCEPT ![Orch] =
                IF i < Len(launch_stages) /\ ~(i > max_attempts)
                THEN "launch" ELSE "fallback"]
    /\ UNCHANGED <<lockVars, orchVars>>
    /\ UNCHANGED funcVars

\* for i, stage in enumerate(self.launch_stages):
\*     if i >= self.config.max_attempts: break
loop_head ==
    /\ pc[Orch] = "loop"
    /\ pc' = [pc EXCEPT ![Orch] =
                IF i < Len(launch_stages) /\ ~(i >= max_attempts)
                THEN "launch" ELSE "fallback"]
    /\ UNCHANGED <<lockVars, orchVars>>
    /\ UNCHANGED funcVars

\* launch_chrome_stage up to subprocess.Popen: get_chrome_executable() finds
\* nothing, Popen raises (both are written to the log), or the child is
\* spawned and the stability sleep starts.
launch_chrome_stage ==
    /\ pc[Orch] = "launch"
    /\ \/ /\ outcome' = "NoExecutable"
          /\ attempts' = Append(attempts, LaunchAttempt(i + 1, launch_stages[i + 1], FALSE))
          /\ failure_logged' = failure_logged \cup {i + 1}
          /\ pc' = [pc EXCEPT ![Orch] = "diag"]
          /\ UNCHANGED chrome_process
       \/ /\ outcome' = "LaunchError"
          /\ attempts' = Append(attempts, LaunchAttempt(i + 1, launch_stages[i + 1], FALSE))
          /\ failure_logged' = failure_logged \cup {i + 1}
          /\ pc' = [pc EXCEPT ![Orch] = "diag"]
          /\ UNCHANGED chrome_process
       \/ /\ chrome_process' = "running"
          /\ pc' = [pc EXCEPT ![Orch] = "stability"]
          /\ UNCHANGED <<outcome, attempts, failure_logged>>
    /\ UNCHANGED <<lockVars, configVars, i, sweeps, fallback, returned, ctx, diagnostics_task>>
    /\ UNCHANGED cancelled
    /\ UNCHANGED group_alive
    /\ UNCHANGED elapsed
    /\ UNCHANGED funcVars

\* The child exits by itself while the launcher waits on it.
child_exit ==
    /\ pc[Orch] \in {"stability", "wait_exit", "a_wait", "a_verify"}
    /\ chrome_process = "running"
    /\ chrome_process' = "exited"
    /\ UNCHANGED <<pc, lockVars, configVars, i, attempts, outcome, sweeps, fallback,
                   returned, ctx, diagnostics_task>>
    /\ UNCHANGED traceVars
    /\ UNCHANGED funcVars

\* Variant: a Stable attempt does not leave the loop; the next stage is tried.
stability_check_continues ==
    /\ pc[Orch] = "stability"
    /\ elapsed
    /\ elapsed' = FALSE
    /\ IF chrome_process = "running"
       THEN /\ outcome' = "Stable"
            /\ UNCHANGED failure_logged
            /\ attempts' = Append(attempts, LaunchAttempt(i + 1, launch_stages[i + 1], TRUE))
            /\ pc' = [pc EXCEPT ![Orch] = "diag"]
       ELSE /\ outcome' = "EarlyExit"
            /\ failure_logged' = failure_logged \cup {i + 1}
            /\ attempts' = Append(attempts, LaunchAttempt(i + 1, launch_stages[i + 1], FALSE))
            /\ pc' = [pc EXCEPT ![Orch] = "diag"]
    /\ UNCHANGED <<lockVars, configVars, i, chrome_process, sweeps, fallback, returned, ctx,
                   diagnostics_task>>
    /\ UNCHANGED cancelled
    /\ UNCHANGED group_alive
    /\ UNCHANGED funcVars

\* Variant: the lock is released as soon as the attempt is Stable, before
\* process.wait().
stability_check_releases ==
    /\ pc[Orch] = "stability"
    /\ elapsed
    /\ elapsed' = FALSE
    /\ IF chrome_process = "running"
       THEN /\ outcome' = "Stable"
            /\ UNCHANGED failure_logged
            /\ attempts' = Append(attempts, LaunchAttempt(i + 1, launch_stages[i + 1], TRUE))
            /\ pc' = [pc EXCEPT ![Orch] = "rel_unlock"]
       ELSE /\ outcome' = "EarlyExit"
            /\ failure_logged' = failure_logged \cup {i + 1}
            /\ attempts' = Append(attempts, LaunchAttempt(i + 1, launch_stages[i + 1], FALSE))
            /\ pc' = [pc EXCEPT ![Orch] = "diag"]
    /\ UNCHANGED <<lockVars, configVars, i, chrome_process, sweeps, fallback, returned, ctx,
                   diagnostics_task>>
    /\ UNCHANGED cancelled
    /\ UNCHANGED group_alive
    /\ UNCHANGED funcVars

\* The child, started as the leader of a new process group (preexec_fn=os.setsid,
\* start_new_session=True), starts helper processes in that group.  Nothing in
\* the launchers signals the group: terminate() and kill() address the child.
child_forks ==
    /\ pc[Orch] \in {"stability", "wait_exit", "a_wait", "a_verify"}
    /\ chrome_process = "running"
    /\ ~group_alive
    /\ group_alive' = TRUE
    /\ UNCHANGED <<pc, lockVars, configVars, loopVars, returned, ctx, diagnostics_task,
                   failure_logged, cancelled, elapsed>>
    /\ UNCHANGED funcVars

\* time.sleep(self.config.launch_timeout) returns: the sleep lasts the whole
\* stability window, whatever happens to the child meanwhile.
sleep_over ==
    /\ pc[Orch] = "stability"
    /\ ~elapsed
    /\ elapsed' = TRUE
    /\ UNCHANGED <<pc, lockVars, configVars, loopVars, returned, ctx, diagnostics_task,
                   failure_logged, cancelled, group_alive>>
    /\ UNCHANGED funcVars

\* time.sleep(launch_timeout) is over: process.poll() decides the outcome.
stability_check ==
    /\ pc[Orch] = "stability"
    /\ elapsed
    /\ elapsed' = FALSE
    /\ IF chrome_process = "running"
       THEN /\ outcome' = "Stable"
            /\ UNCHANGED failure_logged
            /\ attempts' = Append(attempts, LaunchAttempt(i + 1, launch_stages[i + 1], TRUE))
            /\ pc' = [pc EXCEPT ![Orch] = "wait_exit"]
       ELSE /\ outcome' = "EarlyExit"
            /\ failure_logged' = failure_logged \cup {i + 1}
            /\ attempts' = Append(attempts, LaunchAttempt(i + 1, launch_stages[i + 1], FALSE))
            /\ pc' = [pc EXCEPT ![Orch] = "diag"]
    /\ UNCHANGED <<lockVars, configVars, i, chrome_process, sweeps, fallback, returned, ctx,
                   diagnostics_task>>
    /\ UNCHANGED cancelled
    /\ UNCHANGED group_alive
    /\ UNCHANGED funcVars

\* if success: process.wait() returned; return True
wait_exit ==
    /\ pc[Orch] = "wait_exit"
    /\ chrome_process = "exited"
    /\ returned' = "success"
    /\ pc' = [pc EXCEPT ![Orch] = "finally"]
    /\ UNCHANGED <<lockVars, configVars, loopVars, ctx, diagnostics_task>>
    /\ UNCHANGED traceVars
    /\ UNCHANGED funcVars

\* else: full_diagnostic_sweep (which may raise), cleanup_chrome_process,
\* next iteration.
diagnostics_sweep ==
    /\ pc[Orch] = "diag"
    /\ sweeps' = sweeps + 1
    /\ \/ /\ chrome_process' = "none"
          /\ i' = i + 1
          /\ pc' = [pc EXCEPT ![Orch] = "loop"]
          /\ UNCHANGED returned
       \/ /\ returned' = "error"
          /\ pc' = [pc EXCEPT ![Orch] = "finally"]
          /\ UNCHANGED <<i, chrome_process>>
    /\ UNCHANGED <<lockVars, configVars, attempts, outcome, fallback, ctx, diagnostics_task>>
    /\ UNCHANGED traceVars
    /\ UNCHANGED funcVars

\* KeyboardInterrupt: inside process.wait() it is handled in place (cleanup,
\* return True); elsewhere it reaches the outer handler (return False).
interrupt ==
    /\ pc[Orch] \in {"loop", "launch", "stability", "wait_exit", "diag", "fallback"}
    /\ IF pc[Orch] = "wait_exit"
       THEN /\ chrome_process' = "none"
            /\ returned' = "success"
       ELSE /\ returned' = "interrupted"
            /\ UNCHANGED chrome_process
    /\ pc' = [pc EXCEPT ![Orch] = "finally"]
    /\ UNCHANGED <<lockVars, configVars, i, attempts, outcome, sweeps, fallback, ctx,
                   diagnostics_task>>
    /\ cancelled' = TRUE
    /\ UNCHANGED failure_logged
    /\ UNCHANGED group_alive
    /\ elapsed' = FALSE
    /\ UNCHANGED funcVars

\* launch_flatpak_fallback: returns False, or os.execvp replaces the process
\* image (descriptors from os.open are close-on-exec; nothing after it runs).
launch_flatpak_fallback ==
    /\ pc[Orch] = "fallback"
    /\ fallback' = TRUE
    /\ \/ /\ returned' = "exhausted"
          /\ pc' = [pc EXCEPT ![Orch] = "finally"]
          /\ UNCHANGED lockVars
       \/ /\ returned' = "fallback_exec"
          /\ pc' = [pc EXCEPT ![Orch] = "execed"]
          /\ ofd' = [ofd EXCEPT ![Orch] = None]
          /\ flock_owner' = DropFlock(Orch)
          /\ inode_data' = Reclaim(inode_data, lock_file, ofd')
          /\ lock_fd' = [lock_fd EXCEPT ![Orch] = None]
          /\ UNCHANGED lock_file
    /\ UNCHANGED <<configVars, i, chrome_process, attempts, outcome, sweeps, ctx,
                   diagnostics_task>>
    /\ UNCHANGED traceVars
    /\ UNCHANGED funcVars

\* finally: self.cleanup_chrome_process(); self.release_lock()
\* The loop is over: its variables and the record of the run are not read
\* again and end here.
session_finally ==
    /\ pc[Orch] = "finally"
    /\ chrome_process' = "none"
    /\ i' = 0
    /\ attempts' = <<>>
    /\ outcome' = "none"
    /\ sweeps' = 0
    /\ fallback' = FALSE
    /\ failure_logged' = {}
    /\ group_alive' = FALSE
    /\ ctx' = "session"
    /\ pc' = [pc EXCEPT ![Orch] = "rel_unlock"]
    /\ UNCHANGED <<lockVars, configVars, returned, diagnostics_task>>
    /\ UNCHANGED cancelled
    /\ UNCHANGED elapsed
    /\ UNCHANGED funcVars

\* ChromeLauncher.__exit__: cleanup_chrome_process(); release_lock()
launcher_exit ==
    /\ pc[Orch] = "ctx_exit"
    /\ chrome_process' = "none"
    /\ ctx' = "exit"
    /\ pc' = [pc EXCEPT ![Orch] = "rel_unlock"]
    /\ UNCHANGED <<lockVars, configVars, i, attempts, outcome, sweeps, fallback, returned,
                   diagnostics_task>>
    /\ UNCHANGED traceVars
    /\ UNCHANGED funcVars

\* handle_launch returns; the process ends.
session_done ==
    /\ pc[Orch] \in {"ctx_done", "a_done"}
    /\ pc' = [pc EXCEPT ![Orch] = "idle"]
    /\ FreshRun
    /\ UNCHANGED lockVars
    /\ UNCHANGED funcVars

\* ------------ AsyncChromeLauncher.launch_with_concurrent_diagnostics (Orch)
\* AsyncChromeLauncher(config, logger).launch_with_concurrent_diagnostics():
\* return False without chrome_paths, else start the diagnostics task and
\* enter the loop with attempt_num = 1.  The lock is not touched.
start_async ==
    /\ pc[Orch] = "idle"
    /\ \E m \in MaxAttemptsInputs, chrome_paths \in BOOLEAN :
        /\ max_attempts' = m
        /\ launch_stages' = strategies
        /\ IF chrome_paths
           THEN /\ diagnostics_task' = "running"
                /\ i' = 1
                /\ pc' = [pc EXCEPT ![Orch] = "a_loop"]
                /\ UNCHANGED returned
           ELSE /\ returned' = "no_chrome"
                /\ pc' = [pc EXCEPT ![Orch] = "a_done"]
                /\ UNCHANGED <<diagnostics_task, i>>
    /\ UNCHANGED <<lockVars, chrome_process, attempts, outcome, sweeps, fallback, ctx>>
    /\ UNCHANGED traceVars
    /\ UNCHANGED funcVars

\* for attempt_num, (strategy, base_flags) in enumerate(strategies, 1):
\*     if attempt_num > self.config.max_attempts: break
async_loop_head ==
    /\ pc[Orch] = "a_loop"
    /\ pc' = [pc EXCEPT ![Orch] =
                IF i <= Len(launch_stages) /\ ~(i > max_attempts)
                THEN "a_launch" ELSE "a_after"]
    /\ UNCHANGED <<lockVars, orchVars>>
    /\ UNCHANGED funcVars

\* Variant: the environment fixes extend the strategy's own flag list in
\* place instead of a copy of it.
launch_chrome_async_extends_in_place ==
    /\ pc[Orch] = "a_launch"
    /\ \/ /\ outcome' = "LaunchError"
          /\ failure_logged' = failure_logged \cup {i}
          /\ attempts' = Append(attempts, LaunchAttempt(i, launch_stages[i], FALSE))
          /\ pc' = [pc EXCEPT ![Orch] = "a_next"]
          /\ UNCHANGED chrome_process
       \/ /\ chrome_process' = "running"
          /\ pc' = [pc EXCEPT ![Orch] = "a_wait"]
          /\ UNCHANGED <<outcome, attempts, failure_logged>>
    /\ launch_stages' = [launch_stages EXCEPT ![i].flags = Append(@, "--ozone-platform=x11")]
    /\ UNCHANGED <<lockVars, max_attempts, i, sweeps, fallback, returned, ctx, diagnostics_task>>
    /\ UNCHANGED cancelled
    /\ UNCHANGED group_alive
    /\ UNCHANGED elapsed
    /\ UNCHANGED funcVars

\* _launch_chrome_async up to create_subprocess_exec: it raises (the error is
\* logged, the attempt fails and is appended) or the child is spawned and
\* wait_for starts.
launch_chrome_async ==
    /\ pc[Orch] = "a_launch"
    /\ \/ /\ outcome' = "LaunchError"
          /\ failure_logged' = failure_logged \cup {i}
          /\ attempts' = Append(attempts, LaunchAttempt(i, launch_stages[i], FALSE))
          /\ pc' = [pc EXCEPT ![Orch] = "a_next"]
          /\ UNCHANGED chrome_process
       \/ /\ chrome_process' = "running"
          /\ pc' = [pc EXCEPT ![Orch] = "a_wait"]
          /\ UNCHANGED <<outcome, attempts, failure_logged>>
    /\ UNCHANGED <<lockVars, configVars, i, sweeps, fallback, returned, ctx, diagnostics_task>>
    /\ UNCHANGED cancelled
    /\ UNCHANGED group_alive
    /\ UNCHANGED elapsed
    /\ UNCHANGED funcVars

\* asyncio.wait_for(process.wait(), timeout=launch_timeout): the child has
\* exited (failure: stderr goes to attempt.error, nothing is logged), or
\* TimeoutError and the child is verified next.
async_wait ==
    /\ pc[Orch] = "a_wait"
    /\ IF chrome_process = "exited"
       THEN /\ outcome' = "EarlyExit"
            /\ attempts' = Append(attempts, LaunchAttempt(i, launch_stages[i], FALSE))
            /\ pc' = [pc EXCEPT ![Orch] = "a_next"]
       ELSE /\ pc' = [pc EXCEPT ![Orch] = "a_verify"]
            /\ UNCHANGED <<outcome, attempts>>
    /\ UNCHANGED <<lockVars, configVars, i, chrome_process, sweeps, fallback, returned, ctx,
                   diagnostics_task>>
    /\ UNCHANGED traceVars
    /\ UNCHANGED funcVars

\* _verify_chrome_running(pid): True only for a live process whose name
\* contains "chrome"; otherwise the child is terminated and the attempt fails.
verify_chrome_running ==
    /\ pc[Orch] = "a_verify"
    /\ \/ /\ chrome_process = "running"
          /\ outcome' = "Stable"
          /\ attempts' = Append(attempts, LaunchAttempt(i, launch_stages[i], TRUE))
          /\ returned' = "success"
          /\ pc' = [pc EXCEPT ![Orch] = "a_finally"]
          /\ UNCHANGED chrome_process
       \/ /\ outcome' = "Unverified"
          /\ attempts' = Append(attempts, LaunchAttempt(i, launch_stages[i], FALSE))
          /\ chrome_process' = "exited"
          /\ pc' = [pc EXCEPT ![Orch] = "a_next"]
          /\ UNCHANGED returned
    /\ UNCHANGED <<lockVars, configVars, i, sweeps, fallback, ctx, diagnostics_task>>
    /\ UNCHANGED traceVars
    /\ UNCHANGED funcVars

\* Variant: a failed strategy makes the loop skip the one after it.
async_next_skips ==
    /\ pc[Orch] = "a_next"
    /\ i' = i + 2
    /\ chrome_process' = "none"
    /\ pc' = [pc EXCEPT ![Orch] = "a_loop"]
    /\ UNCHANGED <<lockVars, configVars, attempts, outcome, sweeps, fallback, returned, ctx,
                   diagnostics_task>>
    /\ UNCHANGED traceVars
    /\ UNCHANGED funcVars

\* if attempt_num < len(strategies): await asyncio.sleep(2); next iteration
async_next ==
    /\ pc[Orch] = "a_next"
    /\ i' = i + 1
    /\ chrome_process' = "none"
    /\ pc' = [pc EXCEPT ![Orch] = "a_loop"]
    /\ UNCHANGED <<lockVars, configVars, attempts, outcome, sweeps, fallback, returned, ctx,
                   diagnostics_task>>
    /\ UNCHANGED traceVars
    /\ UNCHANGED funcVars

\* Cancellation (CancelledError, KeyboardInterrupt) inside the try block: no
\* handler catches it, the finally block runs and it reaches the caller.  The
\* child of the attempt in flight is not signalled.
async_cancel ==
    /\ pc[Orch] \in {"a_loop", "a_launch", "a_wait", "a_verify", "a_next", "a_after"}
    /\ cancelled' = TRUE
    /\ returned' = "raised"
    /\ pc' = [pc EXCEPT ![Orch] = "a_finally"]
    /\ UNCHANGED <<lockVars, configVars, loopVars, ctx, diagnostics_task, failure_logged, group_alive, elapsed>>
    /\ UNCHANGED funcVars

\* if self.config.enable_flatpak_fallback: return await _try_flatpak_fallback()
\* return False
async_after_loop ==
    /\ pc[Orch] = "a_after"
    /\ \E enable_flatpak_fallback \in BOOLEAN, launched \in BOOLEAN :
        /\ fallback' = enable_flatpak_fallback
        /\ returned' = IF enable_flatpak_fallback /\ launched THEN "fallback" ELSE "exhausted"
    /\ pc' = [pc EXCEPT ![Orch] = "a_finally"]
    /\ UNCHANGED <<lockVars, configVars, i, chrome_process, attempts, outcome, sweeps, ctx,
                   diagnostics_task>>
    /\ UNCHANGED traceVars
    /\ UNCHANGED funcVars

\* A variant of the finally block that awaits the task without cancelling it.
async_finally_no_cancel ==
    /\ pc[Orch] = "a_finally"
    /\ pc' = [pc EXCEPT ![Orch] = "a_await"]
    /\ UNCHANGED <<lockVars, configVars, loopVars, returned, ctx, diagnostics_task>>
    /\ UNCHANGED traceVars
    /\ UNCHANGED funcVars

\* finally: diagnostics_task.cancel(): a task that is not done gets a
\* CancelledError at the await it is suspended in; a finished task is left
\* alone.  Then `await diagnostics_task` suspends the launcher.
async_finally ==
    /\ pc[Orch] = "a_finally"
    /\ diagnostics_task' = IF diagnostics_task = "running" THEN "cancelling" ELSE diagnostics_task
    /\ pc' = [pc EXCEPT ![Orch] = "a_await"]
    /\ UNCHANGED <<lockVars, configVars, loopVars, returned, ctx>>
    /\ UNCHANGED traceVars
    /\ UNCHANGED funcVars

\* _collect_concurrent_diagnostics, except asyncio.CancelledError: the
\* CancelledError passes the `except Exception` handlers of the helper it was
\* raised in, is logged and re-raised; the task is done, cancelled.
diagnostics_task_cancelled ==
    /\ diagnostics_task = "cancelling"
    /\ diagnostics_task' = "cancelled"
    /\ UNCHANGED <<pc, lockVars, configVars, loopVars, returned, ctx>>
    /\ UNCHANGED traceVars
    /\ UNCHANGED funcVars

\* await diagnostics_task returns or raises the task's CancelledError, which
\* `except asyncio.CancelledError: pass` drops; the launcher returns.
async_await_done ==
    /\ pc[Orch] = "a_await"
    /\ diagnostics_task \in {"finished", "cancelled", "none"}
    /\ pc' = [pc EXCEPT ![Orch] = "a_done"]
    /\ UNCHANGED <<lockVars, configVars, loopVars, returned, ctx, diagnostics_task>>
    /\ UNCHANGED traceVars
    /\ UNCHANGED funcVars

\* _collect_concurrent_diagnostics runs to its end by itself.
diagnostics_task_done ==
    /\ diagnostics_task = "running"
    /\ diagnostics_task' = "finished"
    /\ UNCHANGED <<pc, lockVars, configVars, loopVars, returned, ctx>>
    /\ UNCHANGED traceVars
    /\ UNCHANGED funcVars

\* ------------------------------- main() / cli_main() (cli_simple, cli_typer)
\* if lock_file.exists(): print "Another instance is already running"; sys.exit(1)
main_check(p) ==
    /\ pc[p] = "idle"
    /\ pc' = [pc EXCEPT ![p] = IF lock_file # NoFile THEN "rejected" ELSE "m_touch"]
    /\ UNCHANGED <<lockVars, orchVars>>
    /\ UNCHANGED funcVars

\* lock_file.touch()
main_touch(p) ==
    /\ pc[p] = "m_touch"
    /\ IF lock_file = NoFile
       THEN /\ lock_file' = FreshInode
            /\ inode_data' = [inode_data EXCEPT ![FreshInode] = Empty]
       ELSE UNCHANGED <<lock_file, inode_data>>
    /\ pc' = [pc EXCEPT ![p] = "m_app"]
    /\ UNCHANGED <<flock_owner, ofd, lock_fd, orchVars>>
    /\ UNCHANGED funcVars

\* app() has ended, by returning or by raising
main_app(p) ==
    /\ pc[p] = "m_app"
    /\ pc' = [pc EXCEPT ![p] = "m_finally"]
    /\ UNCHANGED <<lockVars, orchVars>>
    /\ UNCHANGED funcVars

\* finally: if lock_file.exists():
main_finally(p) ==
    /\ pc[p] = "m_finally"
    /\ pc' = [pc EXCEPT ![p] = IF lock_file # NoFile THEN "m_unlink" ELSE "m_done"]
    /\ UNCHANGED <<lockVars, orchVars>>
    /\ UNCHANGED funcVars

\*              lock_file.unlink()
main_unlink(p) ==
    /\ pc[p] = "m_unlink"
    /\ lock_file' = NoFile
    /\ inode_data' = Reclaim(inode_data, NoFile, ofd)
    /\ pc' = [pc EXCEPT ![p] = "m_done"]
    /\ UNCHANGED <<flock_owner, ofd, lock_fd, orchVars>>
    /\ UNCHANGED funcVars

\* The invocation has exited; the next one in this slot is a new process.
main_exit(p) ==
    /\ pc[p] \in {"rejected", "m_done"}
    /\ pc' = [pc EXCEPT ![p] = "idle"]
    /\ UNCHANGED <<lockVars, orchVars>>
    /\ UNCHANGED funcVars

\* ------------------------------------------------------- abnormal exit
\* SIGKILL: no Python cleanup runs; the kernel closes the descriptors of the
\* process, which drops its flock and leaves the lock file linked.  The next
\* instance in this slot is a new process ("idle").
Kill(p) ==
    /\ pc[p] \notin {"idle", "execed"}
    /\ pc' = [pc EXCEPT ![p] = "idle"]
    /\ ofd' = [ofd EXCEPT ![p] = None]
    /\ lock_fd' = [lock_fd EXCEPT ![p] = None]
    /\ flock_owner' = DropFlock(p)
    /\ inode_data' = Reclaim(inode_data, lock_file, ofd')
    /\ IF p = Orch THEN FreshRun ELSE UNCHANGED orchVars
    /\ UNCHANGED lock_file
    /\ UNCHANGED funcVars

\* The process that became Flatpak Chromium is no instance any more; the
\* next instance is a new process.
Respawn ==
    /\ pc[Orch] = "execed"
    /\ pc' = [pc EXCEPT ![Orch] = "idle"]
    /\ FreshRun
    /\ UNCHANGED lockVars
    /\ UNCHANGED funcVars

\* ------------------------------------------- the record of an early exit
\* Bytes a child can write to stderr: an ASCII byte and one that is not valid
\* UTF-8.
StderrBytes == {"0x65", "0xFF"}

\* bytes.decode() of one valid byte
CharOf(b) == IF b = "0x65" THEN "e" ELSE "?"

\* bytes.decode() raises UnicodeDecodeError on a byte that is not valid UTF-8
Decodable(bytes) == \A k \in 1..Len(bytes) : bytes[k] # "0xFF"

\* stderr.decode() of decodable bytes
Decode(bytes) == [k \in 1..Len(bytes) |-> CharOf(bytes[k])]

SeqsUpTo(S, n) == UNION {[1..k -> S] : k \in 0..n}

\* Children that exited inside the stability window.
ExitedChildren == [code : (-1)..MaxExitCode, stderr : SeqsUpTo(StderrBytes, MaxStderrLen)]

NoChild == [code |-> 0, stderr |-> <<>>]
NoRecord == [present |-> FALSE]

\* ChromeLauncher.launch_chrome_stage, process.poll() is not None: the exit
\* code goes into the "Chrome crashed" log line, (False, None) is returned.
\* The stderr pipe of the child is never read.
record_sync ==
    /\ ~attempt_record.present
    /\ attempt_record' = [present |-> TRUE, success |-> FALSE, exit_code |-> child_status.code]
    /\ UNCHANGED <<pc, lockVars, orchVars, child_status, stageVars, hostVars, loggerVars, auxVars>>

\* AsyncChromeLauncher._launch_chrome_async, process.wait() returned inside the
\* window: attempt.error = stderr.decode() if stderr else "Process exited
\* unexpectedly"; a decode error lands in `except Exception` and attempt.error
\* becomes the text of the exception.  The value of process.wait() is dropped.
record_async ==
    /\ ~attempt_record.present
    /\ attempt_record' =
          [present |-> TRUE, success |-> FALSE,
           error |-> IF child_status.stderr = <<>> THEN <<"Process exited unexpectedly">>
                     ELSE IF Decodable(child_status.stderr) THEN Decode(child_status.stderr)
                     ELSE <<"UnicodeDecodeError">>]
    /\ UNCHANGED <<pc, lockVars, orchVars, child_status, stageVars, hostVars, loggerVars, auxVars>>

\* ------------------------------------------------------- StructuredLogger
Threads == 1..NumThreads

\* Characters of a message: a letter, a line feed, a backslash, a quote.
Chars == {"n", "LF", "BS", "QUOTE"}

\* metadata: None, a dict json can serialise, a dict holding an object it cannot
Metadata == {"none", "ok", "bad"}

Levels == {"DEBUG", "INFO", "WARN", "ERROR", "SUCCESS"}

Sinks == {"text", "sqlite", "json"}

NoCall == [ts |-> 0]

\* dumps() of one character of a string
EscapeChar(c) ==
    IF c = "LF" THEN <<"BS", "n">>
    ELSE IF c = "BS" THEN <<"BS", "BS">>
    ELSE IF c = "QUOTE" THEN <<"BS", "QUOTE">>
    ELSE <<c>>

\* dumps() of a string: control characters, backslash and quote are escaped
RECURSIVE Escape(_)
Escape(s) == IF s = <<>> THEN <<>> ELSE EscapeChar(Head(s)) \o Escape(Tail(s))

\* json.loads() of an escaped string
RECURSIVE Unescape(_)
Unescape(s) ==
    IF s = <<>> THEN <<>>
    ELSE IF Head(s) = "BS" /\ Len(s) >= 2
    THEN <<(IF s[2] = "n" THEN "LF" ELSE s[2])>> \o Unescape(Tail(Tail(s)))
    ELSE <<Head(s)>> \o Unescape(Tail(s))

\* dumps(log_entry) + "\n" of _write_to_json; "metadata" only when truthy
dumps(c) ==
    [ts |-> c.ts, level |-> c.level, source |-> c.source, content |-> Escape(c.content),
     metadata |-> IF c.metadata = "none" THEN "absent" ELSE c.metadata]

\* json.loads(line) of a reader of logs.jsonl
loads(line) ==
    [ts |-> line.ts, level |-> line.level, source |-> line.source,
     content |-> Unescape(line.content), metadata |-> line.metadata]

\* the row bound to the INSERT of _write_to_sqlite
Row(c) ==
    [ts |-> c.ts, level |-> c.level, source |-> c.source, content |-> c.content,
     metadata |-> IF c.metadata = "none" THEN "NULL" ELSE c.metadata]

\* "[{timestamp}][{level}][{source}] {content}"
formatted_msg(c) == [ts |-> c.ts, level |-> c.level, source |-> c.source, content |-> c.content]

\* self.info("logger", "Session started: ...") at the end of __init__
SessionStarted ==
    [ts |-> 1, level |-> "INFO", source |-> "logger", content |-> <<"n">>, metadata |-> "none"]

\* StructuredLogger.log(level, source, content, metadata): the call that
\* reaches log
log(level, source, content, metadata) ==
    [level |-> level, source |-> source, content |-> content, metadata |-> metadata]

debug(source, content, metadata) == log("DEBUG", source, content, metadata)

info(source, content, metadata) == log("INFO", source, content, metadata)

warn(source, content, metadata) == log("WARN", source, content, metadata)

\* A variant of warning() that logs under its own level name instead of
\* going through warn().
warning_own_level(source, content, metadata) == log("WARNING", source, content, metadata)

warning(source, content, metadata) == warn(source, content, metadata)

error(source, content, metadata) == log("ERROR", source, content, metadata)

success(source, content, metadata) == log("SUCCESS", source, content, metadata)

add(source, content, metadata) == info(source, content, metadata)

Wrappers == {"debug", "info", "warn", "warning", "error", "success", "add"}

\* the call of log a wrapper makes
CallThrough(w, source, content, metadata) ==
    CASE w = "debug" -> debug(source, content, metadata)
      [] w = "info" -> info(source, content, metadata)
      [] w = "warn" -> warn(source, content, metadata)
      [] w = "warning" -> warning(source, content, metadata)
      [] w = "error" -> error(source, content, metadata)
      [] w = "success" -> success(source, content, metadata)
      [] w = "add" -> add(source, content, metadata)

\* a caller enters log() with these arguments, directly or through a wrapper
Enter(t, via, given, args) ==
    /\ lpc[t] = "idle"
    /\ t \in scenario.threads
    /\ tally.issued < scenario.call_limit
    /\ call' = [call EXCEPT ![t] = [ts |-> 0, via |-> via, given |-> given, level |-> args.level,
                                    source |-> args.source, content |-> args.content,
                                    metadata |-> args.metadata]]
    /\ lpc' = [lpc EXCEPT ![t] = "lock"]
    /\ tally' = [tally EXCEPT !.issued = @ + 1]
    /\ UNCHANGED <<pc, lockVars, orchVars, recordVars, stageVars, hostVars, auxVars>>
    /\ UNCHANGED <<scenario, lock_owner, log_count, text_log, sqlite_rows, jsonl_lines,
                   enable_sqlite, enable_json, health, warnings>>

\* logger.<wrapper>(source, content, metadata)
wrapper_call(t, w) ==
    \E content \in scenario.contents, metadata \in scenario.metadata :
        Enter(t, w, <<"test", content, metadata>>, CallThrough(w, "test", content, metadata))

\* logger.log(level, source, content, metadata)
log_call(t) ==
    \E level \in Levels, content \in scenario.contents, metadata \in scenario.metadata :
        Enter(t, "log", <<"test", content, metadata>>, log(level, "test", content, metadata))

\* with self._lock: timestamp = self._get_timestamp(); self.log_count += 1
log_enter(t) ==
    /\ lpc[t] = "lock"
    /\ lock_owner = 0
    /\ lock_owner' = t
    /\ log_count' = log_count + 1
    /\ call' = [call EXCEPT ![t].ts = log_count + 1]
    /\ lpc' = [lpc EXCEPT ![t] = "terminal"]
    /\ UNCHANGED <<pc, lockVars, orchVars, recordVars, stageVars, hostVars, auxVars>>
    /\ UNCHANGED <<scenario, text_log, sqlite_rows, jsonl_lines, enable_sqlite, enable_json,
                   health, warnings, tally>>

\* _write_to_terminal: print(colored_msg), then append to launcher.log; an
\* OSError is reported on stderr.  print writes to sys.stdout: inside a
\* capture_output block that is LogCapture.write, which calls log() again
\* for the (never blank) message and waits at `with self._lock`.
write_to_terminal(t) ==
    /\ lpc[t] = "terminal"
    /\ IF sys_stdout = "capture"
       THEN /\ lpc' = [lpc EXCEPT ![t] = "echo"]
            /\ UNCHANGED <<text_log, warnings>>
       ELSE /\ IF health.text
               THEN /\ text_log' = Append(text_log, formatted_msg(call[t]))
                    /\ UNCHANGED warnings
               ELSE /\ warnings' = [warnings EXCEPT !.text_write = @ + 1]
                    /\ UNCHANGED text_log
            /\ lpc' = [lpc EXCEPT ![t] = "sqlite"]
    /\ UNCHANGED <<pc, lockVars, orchVars, recordVars, stageVars, hostVars, auxVars>>
    /\ UNCHANGED <<scenario, call, lock_owner, log_count, sqlite_rows, jsonl_lines,
                   enable_sqlite, enable_json, health, tally>>

\* _write_to_sqlite: nothing when the sink is off; dumps(metadata) raises
\* TypeError for an object json cannot serialise, which `except sqlite3.Error`
\* does not catch: it leaves log() through `with self._lock` and reaches the
\* caller; an sqlite3.Error is printed to stderr and the sink stays enabled.
write_to_sqlite(t) ==
    /\ lpc[t] = "sqlite"
    /\ IF ~enable_sqlite \/ closer.db_closed
       THEN /\ lpc' = [lpc EXCEPT ![t] = "json"]
            /\ UNCHANGED <<sqlite_rows, warnings, lock_owner, tally, call>>
       ELSE IF call[t].metadata = "bad"
       THEN /\ lpc' = [lpc EXCEPT ![t] = "idle"]
            /\ lock_owner' = 0
            /\ tally' = [tally EXCEPT !.raised = @ + 1]
            /\ call' = [call EXCEPT ![t] = NoCall]
            /\ UNCHANGED <<sqlite_rows, warnings>>
       ELSE IF ~health.sqlite
       THEN /\ warnings' = [warnings EXCEPT !.sqlite_write = @ + 1]
            /\ lpc' = [lpc EXCEPT ![t] = "json"]
            /\ UNCHANGED <<sqlite_rows, lock_owner, tally, call>>
       ELSE /\ sqlite_rows' = Append(sqlite_rows, Row(call[t]))
            /\ lpc' = [lpc EXCEPT ![t] = "json"]
            /\ UNCHANGED <<warnings, lock_owner, tally, call>>
    /\ UNCHANGED <<pc, lockVars, orchVars, recordVars, stageVars, hostVars, auxVars>>
    /\ UNCHANGED <<scenario, log_count, text_log, jsonl_lines, enable_sqlite, enable_json,
                   health>>

\* _write_to_json: nothing when the sink is off; any exception (the file
\* cannot be opened or written, dumps fails) is printed to stderr; else the
\* line is appended and the file closed.
write_to_json(t) ==
    /\ lpc[t] = "json"
    /\ IF ~enable_json
       THEN UNCHANGED <<jsonl_lines, warnings>>
       ELSE IF ~health.json \/ call[t].metadata = "bad"
       THEN /\ warnings' = [warnings EXCEPT !.json_write = @ + 1]
            /\ UNCHANGED jsonl_lines
       ELSE /\ jsonl_lines' = Append(jsonl_lines, dumps(call[t]))
            /\ UNCHANGED warnings
    /\ lpc' = [lpc EXCEPT ![t] = "unlock"]
    /\ UNCHANGED <<pc, lockVars, orchVars, recordVars, stageVars, hostVars, auxVars>>
    /\ UNCHANGED <<scenario, call, lock_owner, log_count, text_log, sqlite_rows,
                   enable_sqlite, enable_json, health, tally>>

\* the end of `with self._lock`: log() returns None to its caller
log_exit(t) ==
    /\ lpc[t] = "unlock"
    /\ lock_owner' = 0
    /\ lpc' = [lpc EXCEPT ![t] = "idle"]
    /\ tally' = [tally EXCEPT !.returned = @ + 1, !.last = call[t]]
    /\ call' = [call EXCEPT ![t] = NoCall]
    /\ UNCHANGED <<pc, lockVars, orchVars, recordVars, stageVars, hostVars, auxVars>>
    /\ UNCHANGED <<scenario, log_count, text_log, sqlite_rows, jsonl_lines, enable_sqlite,
                   enable_json, health, warnings>>

\* The environment: a sink's file or store stops accepting writes (disk
\* full, directory removed, database locked) and stays that way.
sink_fault ==
    /\ \E s \in Sinks :
        /\ health[s]
        /\ health' = [health EXCEPT ![s] = FALSE]
    /\ UNCHANGED <<pc, lockVars, orchVars, recordVars, stageVars, hostVars, auxVars>>
    /\ UNCHANGED <<scenario, lpc, call, lock_owner, log_count, text_log, sqlite_rows,
                   jsonl_lines, enable_sqlite, enable_json, warnings, tally>>

NoWarnings ==
    [sqlite_init |-> 0, sqlite_write |-> 0, json_init |-> 0, json_write |-> 0, text_write |-> 0]

NoLogger ==
    /\ scenario = [threads |-> {}, call_limit |-> 0, contents |-> {}, metadata |-> {}]
    /\ lpc = [t \in Threads |-> "idle"]
    /\ call = [t \in Threads |-> NoCall]
    /\ lock_owner = 0
    /\ log_count = 0
    /\ text_log = <<>>
    /\ sqlite_rows = <<>>
    /\ jsonl_lines = <<>>
    /\ enable_sqlite = FALSE
    /\ enable_json = FALSE
    /\ health = [s \in Sinks |-> TRUE]
    /\ warnings = NoWarnings
    /\ tally = [issued |-> 0, returned |-> 0, raised |-> 0, last |-> NoCall]

\* StructuredLogger(session_dir, enable_sqlite=.., enable_json=..) has
\* returned: _init_sqlite opened the store or printed its warning and
\* switched the sink off, _init_json created the file, and the
\* session-started entry went to the enabled sinks.
Constructed(scn) ==
    /\ scenario = scn
    /\ lpc = [t \in Threads |-> "idle"]
    /\ call = [t \in Threads |-> NoCall]
    /\ lock_owner = 0
    /\ log_count = 1
    /\ health = [s \in Sinks |-> TRUE]
    /\ tally = [issued |-> 0, returned |-> 0, raised |-> 0, last |-> NoCall]
    /\ text_log = <<formatted_msg(SessionStarted)>>
    /\ \E sqlite_arg \in BOOLEAN, json_arg \in BOOLEAN, store_opens \in BOOLEAN :
        /\ enable_sqlite = (sqlite_arg /\ store_opens)
        /\ enable_json = json_arg
        /\ warnings = [NoWarnings EXCEPT
                         !.sqlite_init = IF sqlite_arg /\ ~store_opens THEN 1 ELSE 0]
        /\ sqlite_rows = IF sqlite_arg /\ store_opens THEN <<Row(SessionStarted)>> ELSE <<>>
        /\ jsonl_lines = IF json_arg THEN <<dumps(SessionStarted)>> ELSE <<>>

\* ------------------------------------------------------------ specification
InitProgram ==
    /\ pc = [p \in Procs |-> "idle"]
    /\ lock_file = NoFile
    /\ inode_data = [ino \in Inodes |-> Empty]
    /\ flock_owner = [ino \in Inodes |-> None]
    /\ ofd = [p \in Procs |-> None]
    /\ lock_fd = [p \in Procs |-> None]
    /\ launch_stages = <<>>
    /\ max_attempts = 0
    /\ i = 0
    /\ chrome_process = "none"
    /\ attempts = <<>>
    /\ outcome = "none"
    /\ sweeps = 0
    /\ fallback = FALSE
    /\ returned = "none"
    /\ ctx = "session"
    /\ diagnostics_task = "none"
    /\ failure_logged = {}
    /\ cancelled = FALSE
    /\ group_alive = FALSE
    /\ elapsed = FALSE

NoRecordBuilt ==
    /\ child_status = NoChild
    /\ attempt_record = NoRecord

NoStagesBuilt ==
    /\ snapshot = <<>>
    /\ stages = <<>>
    /\ stages_again = <<>>

NoHostProbed ==
    /\ host = NoHost
    /\ cmd = NoCommand

\* ------------- AsyncChromeLauncher._collect_concurrent_diagnostics (task)
\* The processes the task spawns: `dmesg -T --follow` and `journalctl -f`.
Helpers == {"dmesg", "journalctl"}

\* Where the task is suspended in an await, so that a cancellation can be
\* delivered there.
Awaits == {"not_started", "dmesg_spawn", "dmesg_read", "journal_spawn", "journal_read"}

\* The task made by asyncio.create_task(self._collect_concurrent_diagnostics())
\* runs for the first time.
collect_concurrent_diagnostics ==
    /\ dpc = "not_started"
    /\ ~cancel_requested
    /\ dpc' = "system_info"
    /\ UNCHANGED <<helper, window, cancel_requested>>
    /\ UNCHANGED outsideDiag

\* await self._collect_system_info(): psutil calls without a suspension point;
\* an exception ends the task through `except Exception`.
collect_system_info ==
    /\ dpc = "system_info"
    /\ \E raised \in BOOLEAN : dpc' = IF raised THEN "finished" ELSE "dmesg_spawn"
    /\ UNCHANGED <<helper, window, cancel_requested>>
    /\ UNCHANGED outsideDiag

\* process = await asyncio.create_subprocess_exec(...): the helper runs, or the
\* call raises and `except Exception` ends the phase.
spawn(h, at, reading, after) ==
    /\ dpc = at
    /\ ~cancel_requested
    /\ \/ /\ helper' = [helper EXCEPT ![h] = "running"]
          /\ dpc' = reading
       \/ /\ dpc' = after
          /\ UNCHANGED helper
    /\ window' = 0
    /\ UNCHANGED cancel_requested
    /\ UNCHANGED outsideDiag

\* while time.time() - start_time < 30:
\*     line = await asyncio.wait_for(process.stdout.readline(), timeout=1)
\*     if not line: break
\* A line or a timeout goes round the loop; end of file (the helper has
\* exited) or the end of the window leaves it.  Nothing follows the loop.
read(h, reading, after) ==
    /\ dpc = reading
    /\ ~cancel_requested
    /\ IF window >= MaxWindow \/ helper[h] = "exited"
       THEN /\ dpc' = after
            /\ UNCHANGED window
       ELSE /\ window' = window + 1
            /\ UNCHANGED dpc
    /\ UNCHANGED <<helper, cancel_requested>>
    /\ UNCHANGED outsideDiag

\* _monitor_dmesg
monitor_dmesg ==
    \/ spawn("dmesg", "dmesg_spawn", "dmesg_read", "journal_spawn")
    \/ read("dmesg", "dmesg_read", "journal_spawn")

\* _collect_journal_logs
collect_journal_logs ==
    \/ spawn("journalctl", "journal_spawn", "journal_read", "finished")
    \/ read("journalctl", "journal_read", "finished")

\* A helper ends by itself (dmesg without permission, journalctl killed).
helper_exits ==
    /\ \E h \in Helpers :
        /\ helper[h] = "running"
        /\ helper' = [helper EXCEPT ![h] = "exited"]
    /\ UNCHANGED <<dpc, window, cancel_requested>>
    /\ UNCHANGED outsideDiag

\* finally: diagnostics_task.cancel() in launch_with_concurrent_diagnostics
task_cancel ==
    /\ dpc \notin {"finished", "cancelled"}
    /\ ~cancel_requested
    /\ cancel_requested' = TRUE
    /\ UNCHANGED <<dpc, helper, window>>
    /\ UNCHANGED outsideDiag

\* CancelledError is raised at the await the task is suspended in; it is not
\* an Exception, so the handlers of _monitor_dmesg and _collect_journal_logs
\* let it pass, and `except asyncio.CancelledError: ...; raise` ends the task.
cancelled_error ==
    /\ cancel_requested
    /\ dpc \in Awaits
    /\ dpc' = "cancelled"
    /\ cancel_requested' = FALSE
    /\ UNCHANGED <<helper, window>>
    /\ UNCHANGED outsideDiag

\* ------------------------------------------ Config, load_config, handle_launch
\* A setting that may be absent: <<>> when unset, <<v>> when set to v.
Unset == <<>>
Given(opt, default) == IF opt = Unset THEN default ELSE opt[1]

\* Values a user can write into the environment, the config file or the
\* command line: below, inside and above the validated range.
TimeoutInputs == {Unset, <<4>>, <<10>>, <<301>>}
AttemptsInputs == {Unset, <<0>>, <<4>>, <<11>>}
Settings == [launch_timeout : TimeoutInputs, max_attempts : AttemptsInputs]

NoSettings == [launch_timeout |-> Unset, max_attempts |-> Unset]
NoConfig == [launch_timeout |-> 0, max_attempts |-> 0]

\* Config.__post_init__: clamp launch_timeout to [5, 300] and max_attempts
\* to [1, 10].
post_init(c) ==
    [launch_timeout |-> IF c.launch_timeout < 5 THEN 5
                        ELSE IF c.launch_timeout > 300 THEN 300 ELSE c.launch_timeout,
     max_attempts |-> IF c.max_attempts < 1 THEN 1
                      ELSE IF c.max_attempts > 10 THEN 10 ELSE c.max_attempts]

\* Config.from_file: cls(**config_data); a field the file does not give takes
\* its default_factory, int(os.getenv("CT_...", default)).
from_file(data, env) ==
    post_init([launch_timeout |-> Given(data.launch_timeout, Given(env.launch_timeout, 10)),
               max_attempts |-> Given(data.max_attempts, Given(env.max_attempts, 4))])

\* handle_launch: if args.timeout is not None: config.launch_timeout = args.timeout
\*                if args.max_attempts is not None: config.max_attempts = args.max_attempts
override(c, args) ==
    [launch_timeout |-> Given(args.launch_timeout, c.launch_timeout),
     max_attempts |-> Given(args.max_attempts, c.max_attempts)]

\* main: config = load_config(args.config_file)
load_config ==
    /\ cfg_pc = "main"
    /\ config' = from_file(config_data, environ)
    /\ cfg_pc' = "loaded"
    /\ UNCHANGED <<environ, config_data>>
    /\ UNCHANGED outsideCfg

\* handle_launch(args, config) up to ChromeLauncher(config, logger)
handle_launch ==
    /\ cfg_pc = "loaded"
    /\ \E args \in Settings : config' = override(config, args)
    /\ cfg_pc' = "launcher"
    /\ UNCHANGED <<environ, config_data>>
    /\ UNCHANGED outsideCfg

NoConfiguration ==
    /\ environ = NoSettings
    /\ config_data = NoSettings
    /\ config = NoConfig
    /\ cfg_pc = "main"

\* ----------------------- StructuredLogger.__init__, _rotate_old_sessions
\* Directories cache_dir.glob("session_*") can find: the one the logger is
\* constructed on and one of an earlier session.
SessionNames == {"session_own", "session_earlier"}
SinkFiles == {"launcher.log", "logs.sqlite", "logs.jsonl"}

\* A directory: whether it exists, whether its mtime is before the cutoff,
\* whether its files add up to more than max_size_mb, the sink files in it
\* and the entries written to its launcher.log by the logger under study.
NoDir == [exists |-> FALSE, old |-> FALSE, big |-> FALSE, files |-> {}, lines |-> 0]
FreshDir == [exists |-> TRUE, old |-> FALSE, big |-> FALSE, files |-> {}, lines |-> 0]
FoundDirs ==
    {NoDir} \cup
    [exists : {TRUE}, old : BOOLEAN, big : BOOLEAN, files : {{}, SinkFiles}, lines : {0}]

NoCtor ==
    [at |-> "none", session_dir |-> "session_own", enable_sqlite |-> FALSE,
     enable_json |-> FALSE, log_count |-> 0]

\* A file is created in directory d: the directory's mtime becomes now.
Create(d, f) == IF f \in d.files THEN d ELSE [d EXCEPT !.files = @ \cup {f}, !.old = FALSE]

\* self.session_dir.mkdir(parents=True, exist_ok=True)
ctor_mkdir ==
    /\ ctor.at = "mkdir"
    /\ cache_dir' = [cache_dir EXCEPT ![ctor.session_dir] = IF @.exists THEN @ ELSE FreshDir]
    /\ ctor' = [ctor EXCEPT !.at = "init_storage"]
    /\ UNCHANGED archives
    /\ UNCHANGED outsideRot

\* self._init_sqlite(); self._init_json(): sqlite3.connect creates logs.sqlite
\* and, in WAL mode, its -wal and -shm files; touch(exist_ok=True) creates
\* logs.jsonl when it is missing.
init_storage ==
    /\ ctor.at = "init_storage"
    /\ LET d0 == cache_dir[ctor.session_dir]
           d1 == IF ctor.enable_sqlite
                 THEN [d0 EXCEPT !.files = @ \cup {"logs.sqlite"}, !.old = FALSE] ELSE d0
           d2 == IF ctor.enable_json THEN Create(d1, "logs.jsonl") ELSE d1
       IN cache_dir' = [cache_dir EXCEPT ![ctor.session_dir] = d2]
    /\ ctor' = [ctor EXCEPT !.at = "rotate"]
    /\ UNCHANGED archives
    /\ UNCHANGED outsideRot

\* if mtime < cutoff_date or total_size > max_size_bytes
Rotated(d) == d.exists /\ (d.old \/ d.big)

\* self._rotate_old_sessions(): every session_* directory under
\* session_dir.parent that is too old or too big is archived
\* (shutil.make_archive) and removed (shutil.rmtree).
rotate_old_sessions ==
    /\ ctor.at = "rotate"
    /\ cache_dir' = [n \in SessionNames |-> IF Rotated(cache_dir[n]) THEN NoDir ELSE cache_dir[n]]
    /\ archives' = archives \cup {n \in SessionNames : Rotated(cache_dir[n])}
    /\ ctor' = [ctor EXCEPT !.at = "session_started"]
    /\ UNCHANGED outsideRot

\* _write_to_terminal: open(self.log_file, "a") creates launcher.log when the
\* directory exists and appends the entry; without the directory open raises
\* OSError, which is printed as a warning.
append_entry(d) ==
    IF d.exists THEN [Create(d, "launcher.log") EXCEPT !.lines = @ + 1] ELSE d

\* self.log_count = 0; self.info("logger", "Session started: ..."), and every
\* later call of log
ctor_log ==
    /\ ctor.at \in {"session_started", "ready"}
    /\ ctor.log_count < MaxCalls
    /\ cache_dir' = [cache_dir EXCEPT ![ctor.session_dir] = append_entry(@)]
    /\ ctor' = [ctor EXCEPT !.at = "ready", !.log_count = @ + 1]
    /\ UNCHANGED archives
    /\ UNCHANGED outsideRot

NoSessions ==
    /\ cache_dir = [n \in SessionNames |-> NoDir]
    /\ archives = {}
    /\ ctor = NoCtor

\* ----------------------------- StructuredLogger.close, capture_output
NoCapture == [by |-> 0, old_stdout |-> "console", blank_writes |-> 0]
NoCloser == [by |-> 0, db_closed |-> FALSE]

\* close(): with self._lock: if self._db_connection: close it;
\*                           self._db_connection = None
close_lock(t) ==
    /\ lpc[t] = "idle"
    /\ t \in scenario.threads
    /\ closer.by = 0
    /\ lock_owner = 0
    /\ lock_owner' = t
    /\ closer' = [by |-> t, db_closed |-> TRUE]
    /\ UNCHANGED <<sys_stdout, capture>>
    /\ UNCHANGED outsideSess
    /\ UNCHANGED <<scenario, lpc, call, log_count, text_log, sqlite_rows, jsonl_lines,
                   enable_sqlite, enable_json, health, warnings, tally>>

\* close(), still inside `with self._lock`:
\*     self.info("logger", "Session ended: ...")
\* The call reaches `with self._lock` of log().  The second self.info and the
\* end of the with block come after the return of this call.
close_info(t) ==
    /\ closer.by = t
    /\ lpc[t] = "idle"
    /\ call' = [call EXCEPT ![t] =
                  [ts |-> 0, via |-> "close", given |-> <<"logger", <<"n">>, "none">>,
                   level |-> info("logger", <<"n">>, "none").level, source |-> "logger",
                   content |-> <<"n">>, metadata |-> "none"]]
    /\ lpc' = [lpc EXCEPT ![t] = "lock"]
    /\ UNCHANGED <<sys_stdout, capture, closer>>
    /\ UNCHANGED outsideSess
    /\ UNCHANGED <<scenario, lock_owner, log_count, text_log, sqlite_rows, jsonl_lines,
                   enable_sqlite, enable_json, health, warnings, tally>>

\* text.strip(): leading and trailing whitespace removed
RECURSIVE lstrip(_)
lstrip(s) == IF s # <<>> /\ Head(s) = "LF" THEN lstrip(Tail(s)) ELSE s

RECURSIVE rstrip(_)
rstrip(s) == IF s # <<>> /\ s[Len(s)] = "LF" THEN rstrip(SubSeq(s, 1, Len(s) - 1)) ELSE s

strip(s) == rstrip(lstrip(s))

\* What print() hands to sys.stdout.write inside the block: a line, a line
\* with its newline, the newline alone.
Texts == {<<"n">>, <<"n", "LF">>, <<"LF">>}

\* capture_output(source, level): old_stdout = sys.stdout;
\* sys.stdout = capture; sys.stderr = capture; yield
capture_enter(t) ==
    /\ lpc[t] = "idle"
    /\ t \in scenario.threads
    /\ capture.by = 0
    /\ closer.by = 0
    /\ capture' = [by |-> t, old_stdout |-> sys_stdout, blank_writes |-> 0]
    /\ sys_stdout' = "capture"
    /\ UNCHANGED closer
    /\ UNCHANGED outsideSess
    /\ UNCHANGED loggerVars

\* LogCapture.write(text): if text.strip(): self.logger.log(level, source,
\* text.strip()); return len(text)
capture_write(t) ==
    /\ capture.by = t
    /\ \E text \in Texts :
        IF strip(text) # <<>>
        THEN Enter(t, "capture", <<"stdout_test", text, "none">>,
                   log("INFO", "stdout_test", strip(text), "none"))
        ELSE /\ lpc[t] = "idle"
             /\ capture.blank_writes < MaxCalls
             /\ capture' = [capture EXCEPT !.blank_writes = @ + 1]
             /\ UNCHANGED <<sys_stdout, closer>>
             /\ UNCHANGED outsideSess
             /\ UNCHANGED loggerVars

\* finally: sys.stdout = old_stdout; sys.stderr = old_stderr
capture_exit(t) ==
    /\ capture.by = t
    /\ lpc[t] = "idle"
    /\ sys_stdout' = capture.old_stdout
    /\ capture' = NoCapture
    /\ UNCHANGED closer
    /\ UNCHANGED outsideSess
    /\ UNCHANGED loggerVars

NoSession ==
    /\ sys_stdout = "console"
    /\ capture = NoCapture
    /\ closer = NoCloser

NoDiagnostics ==
    /\ dpc = "not_started"
    /\ helper = [h \in Helpers |-> "none"]
    /\ window = 0
    /\ cancel_requested = FALSE

NoAux ==
    /\ NoDiagnostics
    /\ NoConfiguration
    /\ NoSessions
    /\ NoSession

\* The state after construction.
Init ==
    /\ InitProgram
    /\ NoAux
    /\ NoRecordBuilt
    /\ NoStagesBuilt
    /\ NoHostProbed
    /\ NoLogger

LockStep(p) ==
    \/ acquire_touch(p)
    \/ acquire_open(p)
    \/ acquire_flock(p)
    \/ acquire_write(p)
    \/ release_unlock(p)
    \/ release_close(p)
    \/ release_unlink(p)
    \/ release_noop(p)
    \/ call_acquire(p)
    \/ call_release(p)
    \/ Kill(p)

SyncStep ==
    \/ start_session
    \/ loop_head
    \/ launch_chrome_stage
    \/ child_exit
    \/ child_forks
    \/ sleep_over
    \/ stability_check
    \/ wait_exit
    \/ diagnostics_sweep
    \/ interrupt
    \/ launch_flatpak_fallback
    \/ session_finally
    \/ launcher_exit
    \/ session_done
    \/ Respawn

AsyncStep ==
    \/ start_async
    \/ async_loop_head
    \/ launch_chrome_async
    \/ async_wait
    \/ verify_chrome_running
    \/ async_next
    \/ async_cancel
    \/ async_after_loop
    \/ async_finally
    \/ diagnostics_task_cancelled
    \/ async_await_done
    \/ diagnostics_task_done

Next == LockStep(Orch) \/ LockStep(Rival) \/ SyncStep \/ AsyncStep

Spec == Init /\ [][Next]_vars

InitRecord ==
    /\ InitProgram
    /\ NoAux
    /\ NoStagesBuilt
    /\ NoHostProbed
    /\ child_status \in ExitedChildren
    /\ attempt_record = NoRecord
    /\ NoLogger

NextRecord == record_sync \/ record_async

SpecRecord == InitRecord /\ [][NextRecord]_vars

InitStages ==
    /\ InitProgram
    /\ NoAux
    /\ NoRecordBuilt
    /\ NoHostProbed
    /\ snapshot \in SystemInfos
    /\ stages = <<>>
    /\ stages_again = <<>>
    /\ NoLogger

NextStages == build_stages \/ rebuild_stages

SpecStages == InitStages /\ [][NextStages]_vars

InitHost ==
    /\ InitProgram
    /\ NoAux
    /\ NoRecordBuilt
    /\ NoStagesBuilt
    /\ host \in Hosts
    /\ cmd = NoCommand
    /\ NoLogger

NextHost == construct_launcher \/ build_command

SpecHost == InitHost /\ [][NextHost]_vars

LogSteps(t) ==
    \/ log_enter(t)
    \/ write_to_terminal(t)
    \/ write_to_sqlite(t)
    \/ write_to_json(t)
    \/ log_exit(t)

\* Threads of one process log through info() while sinks may fail.
InitLogger ==
    /\ InitProgram
    /\ NoAux
    /\ NoRecordBuilt
    /\ NoStagesBuilt
    /\ NoHostProbed
    /\ Constructed([threads |-> Threads, call_limit |-> MaxCalls,
                    contents |-> {<<"n">>}, metadata |-> Metadata])

NextLogger ==
    \/ \E t \in Threads : wrapper_call(t, "info") \/ LogSteps(t)
    \/ sink_fault

SpecLogger == InitLogger /\ [][NextLogger]_vars

\* One caller uses every wrapper and log() itself; the sinks stay healthy.
InitWrappers ==
    /\ InitProgram
    /\ NoAux
    /\ NoRecordBuilt
    /\ NoStagesBuilt
    /\ NoHostProbed
    /\ Constructed([threads |-> {1}, call_limit |-> MaxWrapperCalls,
                    contents |-> {<<"n">>, <<"LF">>}, metadata |-> Metadata])

NextWrappers ==
    \/ \E w \in Wrappers : wrapper_call(1, w)
    \/ log_call(1)
    \/ LogSteps(1)

SpecWrappers == InitWrappers /\ [][NextWrappers]_vars

NextDiagnostics ==
    \/ collect_concurrent_diagnostics
    \/ collect_system_info
    \/ monitor_dmesg
    \/ collect_journal_logs
    \/ helper_exits
    \/ task_cancel
    \/ cancelled_error

SpecDiagnostics == Init /\ [][NextDiagnostics]_vars

InitConfig ==
    /\ InitProgram
    /\ NoRecordBuilt
    /\ NoStagesBuilt
    /\ NoHostProbed
    /\ NoLogger
    /\ NoDiagnostics
    /\ NoSessions
    /\ NoSession
    /\ environ \in Settings
    /\ config_data \in Settings
    /\ config = NoConfig
    /\ cfg_pc = "main"

NextConfig == load_config \/ handle_launch

SpecConfig == InitConfig /\ [][NextConfig]_vars

InitRotation ==
    /\ InitProgram
    /\ NoRecordBuilt
    /\ NoStagesBuilt
    /\ NoHostProbed
    /\ NoLogger
    /\ NoDiagnostics
    /\ NoConfiguration
    /\ NoSession
    /\ cache_dir \in [SessionNames -> FoundDirs]
    /\ archives = {}
    /\ ctor \in [at : {"mkdir"}, session_dir : {"session_own"}, enable_sqlite : BOOLEAN,
                 enable_json : BOOLEAN, log_count : {0}]

NextRotation ==
    \/ ctor_mkdir
    \/ init_storage
    \/ rotate_old_sessions
    \/ ctor_log

SpecRotation == InitRotation /\ [][NextRotation]_vars

\* Threads log through info() and one of them closes the logger.
InitClose ==
    /\ InitProgram
    /\ NoAux
    /\ NoRecordBuilt
    /\ NoStagesBuilt
    /\ NoHostProbed
    /\ Constructed([threads |-> Threads, call_limit |-> MaxCalls,
                    contents |-> {<<"n">>}, metadata |-> {"none"}])

NextClose ==
    \E t \in Threads :
        \/ wrapper_call(t, "info")
        \/ LogSteps(t)
        \/ close_lock(t)
        \/ close_info(t)

SpecClose == InitClose /\ [][NextClose]_vars

\* Threads log through info() while one of them prints inside capture_output.
NextCapture ==
    \E t \in Threads :
        \/ wrapper_call(t, "info")
        \/ LogSteps(t)
        \/ capture_enter(t)
        \/ capture_write(t)
        \/ capture_exit(t)

SpecCapture == InitClose /\ [][NextCapture]_vars

NextLock == \E p \in Users : LockStep(p)

SpecLock == Init /\ [][NextLock]_vars

CliStep(p) ==
    \/ main_check(p)
    \/ main_touch(p)
    \/ main_app(p)
    \/ main_finally(p)
    \/ main_unlink(p)
    \/ main_exit(p)
    \/ Kill(p)

NextCli == \E p \in Procs : CliStep(p)

SpecCli == Init /\ [][NextCli]_vars

\* ---------------------------------------------------------------- claims
\* A process holds the lock from the moment its acquire_lock returned True
\* until its release_lock has completed.
Holds(p) == lock_fd[p] # None /\ pc[p] \notin {"acq_flock", "acq_write"}

\* C1: at most one process holds the single-instance lock at any time,
\* across every interleaving of the steps of acquire_lock and release_lock.
C1_MutualExclusion == \A p \in Procs, q \in Procs : Holds(p) /\ Holds(q) => p = q

\* acquire_lock of p returns True / False in this step
AcquireReturnsTrue(p) == pc[p] = "acq_write" /\ pc'[p] = AfterAcquireTrue(p)
AcquireReturnsFalse(p) ==
    /\ pc[p] = "acq_flock"
    /\ flock_owner[ofd[p]] # None
    /\ pc'[p] = AfterAcquireFalse(p)

\* Some process other than p holds the lock or is returning from an
\* acquire_lock that took it.
OtherHolder(p) == \E q \in Procs \ {p} : Holds(q) \/ pc[q] = "acq_write"

\* q's acquire_lock returned True and q has not called release_lock since.
InSession(q) == Holds(q) /\ pc[q] \notin {"rel_unlock", "rel_close", "rel_unlink"}

\* C2: lock round trip: while a launcher holds the lock (it has not called
\* release_lock), acquire_lock by another launcher returns False; and
\* acquire_lock returns False only while another launcher has the lock.
C2_RoundTrip ==
    [][\A p \in Procs :
        /\ AcquireReturnsTrue(p) => ~(\E q \in Procs \ {p} : InSession(q))
        /\ AcquireReturnsFalse(p) => OtherHolder(p)]_vars

\* An invocation of main() is past its touch and before the end of its unlink.
InMain(p) == pc[p] \in {"m_app", "m_finally", "m_unlink"}

\* C3: a lock whose holder was killed does not stay held: an instance is
\* turned away only while a live process holds the lock.
C3_NoStaleLock ==
    [][\A p \in Procs :
        (pc[p] = "idle" /\ pc'[p] = "rejected") => \E q \in Procs \ {p} : InMain(q)]_vars

\* C4: release_lock on a launcher whose lock_fd is None (a second call, or a
\* launcher whose acquire_lock never succeeded) changes nothing: not the
\* lock file, not its content, not anybody's flock or descriptor.
C4_ReleaseIdempotent ==
    [][\A p \in Procs :
        (pc[p] = "rel_unlock" /\ lock_fd[p] = None /\ pc'[p] # "rel_unlock")
            => UNCHANGED lockVars]_vars

\* C4 witness: Orch's acquire_lock failed, its __exit__ has called
\* release_lock, and Rival still holds the lock it had.
C4_Witness ==
    /\ pc[Orch] = "ctx_done"
    /\ returned = "lock_failed"
    /\ pc[Rival] = "holding"
    /\ lock_file = lock_fd[Rival]
    /\ flock_owner[lock_file] = Rival

\* C5: when acquire_lock fails the session returns at once: no attempt, no
\* child, no diagnostics sweep, no fallback, no further acquire_lock.
C5_AlreadyRunningIsFatal ==
    returned = "lock_failed" =>
        /\ attempts = <<>>
        /\ chrome_process = "none"
        /\ sweeps = 0
        /\ ~fallback
        /\ lock_fd[Orch] = None
        /\ pc[Orch] \in {"ctx_exit", "rel_unlock", "ctx_done"}

C5_Witness == returned = "lock_failed" /\ pc[Orch] = "ctx_done" /\ pc[Rival] = "holding"

\* An attempt is being made: between the call of the launch and its outcome.
AttemptInFlight == pc[Orch] \in {"launch", "stability", "a_launch", "a_wait", "a_verify"}

\* C6: no launch attempt is made and no child is spawned unless the process
\* holds the single-instance lock.
C6_LaunchOnlyUnderLock == (AttemptInFlight \/ chrome_process = "running") => Holds(Orch)

\* The attempt cap in force: a cap below zero allows no attempt.
AttemptsBound == Min(Len(launch_stages), IF max_attempts < 0 THEN 0 ELSE max_attempts)

\* The stage loop of the run is over and the record of the run is complete.
LoopEnded ==
    /\ pc[Orch] \in {"finally", "execed", "a_finally", "a_await", "a_done"}
    /\ returned \in {"success", "exhausted", "fallback", "fallback_exec"}

\* C7 as stated: in every run the number of Attempts is min(len(stages), max_attempts).
C7_AttemptCount == LoopEnded => Len(attempts) = AttemptsBound

\* C7 amended: the number of Attempts never exceeds min(len(stages),
\* max_attempts) and equals it when the loop ends without a Stable attempt.
C7_AttemptCountExhausted ==
    /\ Len(attempts) <= AttemptsBound
    /\ (LoopEnded /\ returned # "success") => Len(attempts) = AttemptsBound

C7_Witness ==
    /\ pc[Orch] = "finally"
    /\ returned = "exhausted"
    /\ max_attempts < Len(launch_stages)
    /\ Len(attempts) = max_attempts
    /\ Len(attempts) >= 2

\* C8: the Attempts are a prefix of the stage list: the k-th has
\* attempt_number k and the k-th stage, and the attempt in flight is the next.
C8_AttemptsPrefix ==
    /\ Len(attempts) <= Len(launch_stages)
    /\ \A k \in 1..Len(attempts) :
        /\ attempts[k].attempt_number = k
        /\ attempts[k].strategy = launch_stages[k].name
    /\ pc[Orch] \in {"launch", "stability"} => i = Len(attempts)
    /\ pc[Orch] \in {"a_launch", "a_wait", "a_verify"} => i = Len(attempts) + 1

C8_Witness ==
    /\ pc[Orch] = "a_verify"
    /\ Len(attempts) = 3
    /\ attempts[3].strategy = "no_vaapi"

StableSeen == \E k \in 1..Len(attempts) : attempts[k].success

\* C9: once an attempt is Stable the loop stops: the Stable attempt is the
\* last one, no stage is launched after it and the fallback is not invoked.
C9_StableStopsLoop ==
    StableSeen =>
        /\ attempts[Len(attempts)].success
        /\ \A k \in 1..(Len(attempts) - 1) : ~attempts[k].success
        /\ outcome = "Stable"
        /\ pc[Orch] \in {"wait_exit", "finally", "a_finally", "a_await", "a_done"}
        /\ ~fallback

C9_Witness ==
    /\ StableSeen
    /\ pc[Orch] = "finally"
    /\ Len(attempts) = 2
    /\ Len(attempts) < AttemptsBound

\* C10: in a session of ChromeLauncher the lock stays held from the Stable
\* outcome until teardown, in particular while the launched child runs.
C10_LockHeldAfterStable ==
    (outcome = "Stable"
        /\ \/ pc[Orch] \in {"wait_exit", "finally"}
           \/ (chrome_process = "running"
                  /\ pc[Orch] \in {"rel_unlock", "rel_close", "rel_unlink"}))
      => /\ lock_fd[Orch] # None
         /\ ofd[Orch] = lock_fd[Orch]
         /\ flock_owner[lock_fd[Orch]] = Orch

C10_Witness ==
    /\ outcome = "Stable"
    /\ pc[Orch] = "wait_exit"
    /\ chrome_process = "running"
    /\ pc[Rival] = "acq_flock"

\* C11: when an attempt ended in EarlyExit or LaunchError, the loop goes on to
\* the next stage if one remains under the cap, and before that stage is
\* launched the failure has been logged and a diagnostics sweep has run for
\* the failed attempt.
C11_FailureLoggedBeforeNext ==
    [][(/\ pc[Orch] \in {"loop", "a_loop"}
        /\ outcome \in {"EarlyExit", "LaunchError"}
        /\ pc'[Orch] \notin {pc[Orch], "idle"})
       => /\ Len(attempts) < AttemptsBound => pc'[Orch] \in {"launch", "a_launch"}
          /\ pc'[Orch] \in {"launch", "a_launch"} =>
                /\ Len(attempts) \in failure_logged
                /\ sweeps >= Len(attempts)]_vars

\* The lock file the session of p wrote its pid into is still linked at the
\* lock path.
LockFileLeft(p) == lock_file # NoFile /\ inode_data[lock_file] = p

\* p has nothing of the lock: no descriptor, no flock, no lock file of its own.
Released(p) ==
    /\ lock_fd[p] = None
    /\ ofd[p] = None
    /\ \A ino \in Inodes : flock_owner[ino] # p
    /\ ~LockFileLeft(p)

\* C12: on every path by which a session that acquired the lock ends
\* (handle_launch is done with it, or the process image was replaced by the
\* fallback), the lock has been released.
C12_ReleasedWhenDone ==
    (pc[Orch] \in {"ctx_done", "execed"} /\ returned # "lock_failed") => Released(Orch)

\* The run of the orchestrator has returned to its caller.
Returned == pc[Orch] \in {"ctx_exit", "ctx_done", "a_done"}

\* C13: when a cancellation arrived during the session, then by the time the
\* orchestrator has returned the child of the attempt in flight is not
\* running any more and the lock has been released.
C13_CancelTerminatesAndReleases ==
    (cancelled /\ Returned) => (chrome_process # "running" /\ Released(Orch))

\* C14: a cancellation that arrived during the session reaches the caller as
\* an interruption: the run does not end by an ordinary return.
C14_CancelPropagates == (cancelled /\ Returned) => returned = "raised"

\* Control is back in the stage loop after an attempt that was not Stable.
BackInLoop ==
    /\ pc[Orch] \in {"diag", "loop", "a_next", "a_loop"}
    /\ Len(attempts) > 0
    /\ ~attempts[Len(attempts)].success

\* C15: when an attempt ended with an outcome other than Stable, the child
\* and every process of its process group have terminated before control is
\* back in the stage loop.
C15_GroupTerminated == BackInLoop => (chrome_process # "running" /\ ~group_alive)

\* The child of the attempt in flight is alive at the end of the stability
\* window: at the poll() that follows the sleep, or when wait_for timed out.
SurvivedWindow ==
    \/ pc[Orch] = "stability" /\ elapsed /\ chrome_process = "running"
    \/ pc[Orch] = "a_verify"

\* C16: an attempt is recorded as a success exactly when its child survived
\* the stability window, and the step that ends such an attempt leaves the
\* child as it is (no termination).
C16_StableIffSurvived ==
    [][Len(attempts') = Len(attempts) + 1 =>
          /\ attempts'[Len(attempts')].success <=> SurvivedWindow
          /\ SurvivedWindow => chrome_process' = chrome_process]_vars

\* The supervisor is waiting on a child that has already exited.
WaitingOnDeadChild ==
    /\ pc[Orch] \in {"stability", "a_wait"}
    /\ chrome_process = "exited"

\* C17: when the child exits inside the stability window the supervisor is
\* not blocked for the rest of the window: its return with EarlyExit is
\* possible at once.
C17_EarlyExitReturnsAtOnce ==
    WaitingOnDeadChild => ENABLED (stability_check \/ async_wait)

\* The executable could not be resolved: get_chrome_executable() returned
\* nothing for a stage, or the async launcher found no chrome_paths.
ExecutableNotFound == outcome = "NoExecutable" \/ returned = "no_chrome"

\* C19: when the executable cannot be resolved the session ends at once with
\* that failure: no stage counts as attempted, no diagnostics sweep runs and
\* the loop does not go on through the stage list.
C19_ExecutableNotFoundIsFatal ==
    ExecutableNotFound =>
        /\ attempts = <<>>
        /\ sweeps = 0
        /\ pc[Orch] \in {"finally", "a_done"}
        /\ returned \in {"no_chrome", "no_executable"}

\* C18: the record of an attempt whose child exited inside the stability
\* window is a failure and carries the child's exit code and its captured
\* stderr, the placeholder message standing in only for an empty stderr.
C18_EarlyExitRecord ==
    attempt_record.present =>
        /\ ~attempt_record.success
        /\ "exit_code" \in DOMAIN attempt_record
        /\ attempt_record.exit_code = child_status.code
        /\ "error" \in DOMAIN attempt_record
        /\ child_status.stderr = <<>> => attempt_record.error = <<"Process exited unexpectedly">>
        /\ child_status.stderr # <<>> =>
                /\ attempt_record.error # <<"Process exited unexpectedly">>
                /\ Decodable(child_status.stderr) =>
                        attempt_record.error = Decode(child_status.stderr)

\* C20: whatever the snapshot, the list _build_launch_stages returns begins
\* with the stage "vanilla" that has no flags and ends with the stage
\* "safe_mode", and a second build from the same snapshot returns the same
\* ordered list.
C20_StageListShape ==
    /\ stages # <<>> =>
            /\ stages[1] = Stage("vanilla", <<>>)
            /\ Len(stages) >= 2
            /\ stages[Len(stages)].name = "safe_mode"
            /\ \E k \in DOMAIN stages[Len(stages)].flags :
                    stages[Len(stages)].flags[k] = "--no-sandbox"
    /\ stages_again # <<>> => stages_again = stages

\* A snapshot with environment-specific stages has been built twice.
C20_Witness ==
    /\ stages_again # <<>>
    /\ Get(snapshot, "running_in_flatpak", FALSE)
    /\ Get(snapshot, "session_type", "unknown") = "wayland"
    /\ Len(stages) >= 5

\* the indices of the stages called name
StageIndex(name) == {k \in 1..Len(stages) : stages[k].name = name}

Before(a, b) == \A j \in StageIndex(a), k \in StageIndex(b) : j < k

\* C21: on a host whose GPU is NVIDIA and whose VA-API driver is absent, the
\* stage list holds the NVIDIA stage at a smaller index than the generic
\* disable-GPU stage.
C21_NvidiaStageBeforeNoGpu ==
    (stages # <<>> /\ host.lspci = "nvidia" /\ ~host.nvidia_vaapi) =>
        /\ StageIndex("no_nvidia_vaapi") # {}
        /\ StageIndex("no_gpu") # {}
        /\ Before("no_nvidia_vaapi", "no_gpu")

VendorStages == StageIndex("no_nvidia_vaapi") \cup StageIndex("no_amd_vaapi")

\* the host reports a known GPU vendor and that vendor's VA-API driver absent
DriverReportedAbsent ==
    \/ host.lspci = "nvidia" /\ ~host.nvidia_vaapi
    \/ host.lspci \in {"amd", "intel"} /\ ~host.vaapi_available

\* C22: the stage list holds a vendor-specific stage exactly when the host
\* reports a known GPU vendor and the required driver absent.
C22_VendorStageIffDriverAbsent ==
    stages # <<>> => (VendorStages # {} <=> DriverReportedAbsent)

\* C23: the Wayland, SELinux and container stages are each present exactly
\* when the host reports the condition, in that relative order, after the
\* disable-GPU stage and before the last stage.
ContainerStages == StageIndex("container_mode") \cup StageIndex("flatpak_mode")

C23_ConditionalStages ==
    stages # <<>> =>
        /\ StageIndex("wayland_fallback") # {} <=> host.XDG_SESSION_TYPE = "wayland"
        /\ StageIndex("selinux_compat") # {} <=> host.getenforce = "Enforcing"
        /\ ContainerStages # {} <=> (host.container # "none" \/ host.flatpak)
        /\ Before("wayland_fallback", "selinux_compat")
        /\ Before("selinux_compat", "container_mode")
        /\ Before("selinux_compat", "flatpak_mode")
        /\ Before("wayland_fallback", "container_mode")
        /\ Before("wayland_fallback", "flatpak_mode")
        /\ \A n \in {"wayland_fallback", "selinux_compat", "container_mode", "flatpak_mode"} :
                Before("no_gpu", n) /\ \A k \in StageIndex(n) : k < Len(stages)

Has(flags, f) == \E k \in DOMAIN flags : flags[k] = f

\* C24: on a Wayland host the stage inserted for it carries the flag that
\* forces X11, and the command line built for that stage does not select
\* Wayland.
C24_WaylandStageForcesX11 ==
    (stages # <<>> /\ host.XDG_SESSION_TYPE = "wayland") =>
        /\ StageIndex("wayland_fallback") # {}
        /\ \A k \in StageIndex("wayland_fallback") :
              /\ Has(stages[k].flags, "--ozone-platform=x11")
              /\ cmd.stage = k => ~Has(cmd.argv, "--ozone-platform=wayland")

\* no log call is in progress
Quiescent == \A t \in Threads : lpc[t] = "idle"

AllHealthy == \A s \in Sinks : health[s]

\* the records a sink holds for calls of the callers
FromCallers(sink) == {k \in 1..Len(sink) : sink[k].source = "test"}

\* one complete record per call issued, no two with the same timestamp
ExactlyOnePerCall(sink) ==
    /\ Cardinality(FromCallers(sink)) = tally.issued
    /\ \A j, k \in FromCallers(sink) : sink[j].ts = sink[k].ts => j = k
    /\ \A k \in FromCallers(sink) :
          sink[k].ts > 0 /\ sink[k].level \in Levels /\ sink[k].content \in scenario.contents

\* C25: once the N log calls issued by the threads are over, and no sink has
\* failed, each enabled durable sink holds exactly N complete records.
C25_ExactlyNRecords ==
    (Quiescent /\ AllHealthy) =>
        /\ enable_sqlite => ExactlyOnePerCall(sqlite_rows)
        /\ enable_json => ExactlyOnePerCall([k \in 1..Len(jsonl_lines) |-> loads(jsonl_lines[k])])

\* the sink has failed: its store could not be opened, or it stopped
\* accepting writes and a write to it was reported
SinkFailed(s) ==
    IF s = "sqlite" THEN warnings.sqlite_init > 0 \/ (~health.sqlite /\ warnings.sqlite_write > 0)
    ELSE warnings.json_init > 0 \/ (~health.json /\ warnings.json_write > 0)

SinkEnabled(s) == IF s = "sqlite" THEN enable_sqlite ELSE enable_json

WarningsFor(s) ==
    IF s = "sqlite" THEN warnings.sqlite_init + warnings.sqlite_write
    ELSE warnings.json_init + warnings.json_write

\* C26: a durable sink that has failed is disabled, and one warning has been
\* emitted for it, however many log calls followed.
C26_FailedSinkDisabledOnce ==
    \A s \in {"sqlite", "json"} :
        SinkFailed(s) => (~SinkEnabled(s) /\ WarningsFor(s) = 1)

\* thread t's call is over in the next state
Finishes(t) == lpc[t] # "idle" /\ lpc'[t] = "idle"

InSink(sink, c) == \E k \in 1..Len(sink) : sink[k].ts = c.ts /\ sink[k].content = c.content

\* C27: no log call raises, and a call that is over has written its entry
\* to every enabled sink that is healthy and can take the entry.
C27_NeverRaisesNeverSkips ==
    [][\A t \in Threads : Finishes(t) =>
         /\ tally'.raised = tally.raised
         /\ health.text => InSink(text_log', call[t])
         /\ (enable_json /\ health.json /\ call[t].metadata # "bad") =>
                InSink(jsonl_lines', dumps(call[t]))
         /\ (enable_sqlite /\ health.sqlite /\ call[t].metadata # "bad") =>
                InSink(sqlite_rows', call[t])]_vars

\* the call of thread t returns to its caller in the next state
Returns(t) == lpc[t] = "unlock" /\ lpc'[t] = "idle"

\* what a reader of logs.jsonl gets for the entry written at ts
ReadBack(lines, ts) == {loads(lines[k]) : k \in {j \in 1..Len(lines) : lines[j].ts = ts}}

\* C28: when a log call returns and the JSONL sink is enabled and accepts
\* writes, the sink holds the entry, and reading it back gives the source,
\* level, message and timestamp of the call.
C28_JsonlRoundTrip ==
    [][\A t \in Threads : (Returns(t) /\ enable_json /\ health.json) =>
         /\ ReadBack(jsonl_lines', call[t].ts) # {}
         /\ \A r \in ReadBack(jsonl_lines', call[t].ts) :
               /\ r.source = call[t].source
               /\ r.level = call[t].level
               /\ r.content = call[t].content
               /\ r.ts = call[t].ts]_vars

\* the level each wrapper is documented to log under
FixedLevel(w) ==
    CASE w = "debug" -> "DEBUG"
      [] w = "info" -> "INFO"
      [] w = "warn" -> "WARN"
      [] w = "warning" -> "WARN"
      [] w = "error" -> "ERROR"
      [] w = "success" -> "SUCCESS"
      [] w = "add" -> "INFO"

\* thread t enters log() in the next state
Enters(t) == lpc[t] = "idle" /\ lpc'[t] = "lock"

\* C29: a wrapper call reaches log exactly as log(level, source, content,
\* metadata) called with the wrapper's fixed level and the caller's own
\* arguments would, it changes nothing else, and when it is over it has
\* counted and written one entry, of that level.
C29_WrappersCallThrough ==
    [][/\ \A t \in Threads : (Enters(t) /\ call'[t].via \in Wrappers) =>
            /\ call'[t].level = FixedLevel(call'[t].via)
            /\ <<call'[t].source, call'[t].content, call'[t].metadata>> = call'[t].given
            /\ UNCHANGED <<lock_owner, log_count, text_log, sqlite_rows, jsonl_lines,
                           enable_sqlite, enable_json, warnings>>
       /\ \A t \in Threads : (Finishes(t) /\ call[t].via \in Wrappers) =>
            /\ log_count' = 1 + tally.issued
            /\ Len(text_log') = 1 + tally.issued
            /\ text_log'[Len(text_log')] =
                  [ts |-> log_count', level |-> FixedLevel(call[t].via),
                   source |-> call[t].given[1], content |-> call[t].given[2]]]_vars

\* A call of warning() has returned.
C29_Witness ==
    /\ tally.returned >= 1
    /\ tally.last.via = "warning"
    /\ text_log[Len(text_log)].level = "WARN"

\* the launcher's own steps between the creation of the task and the finally
\* block
AsyncLoopStep ==
    \/ async_loop_head
    \/ launch_chrome_async
    \/ async_wait
    \/ verify_chrome_running
    \/ async_next
    \/ async_after_loop

\* C30: the launcher never returns with the diagnostics task still running;
\* in the finally block the task is cancelled and the wait for it can always
\* end through that cancellation; and whatever the task is doing, the next
\* step of the launch loop can be taken.
C30_DiagnosticsCancelled ==
    /\ (pc[Orch] = "a_done" /\ returned # "no_chrome") =>
            diagnostics_task \in {"cancelled", "finished"}
    /\ pc[Orch] = "a_finally" => ENABLED async_finally
    /\ pc[Orch] = "a_await" =>
            /\ diagnostics_task \in {"cancelling", "cancelled", "finished"}
            /\ ENABLED (diagnostics_task_cancelled \/ async_await_done)
    /\ pc[Orch] \in {"a_loop", "a_launch", "a_wait", "a_verify", "a_next", "a_after"} =>
            ENABLED AsyncLoopStep

\* The launcher has returned after cancelling a task that was still running.
C30_Witness ==
    /\ pc[Orch] = "a_done"
    /\ diagnostics_task = "cancelled"
    /\ Len(attempts) > 0

\* C38: an acquire_lock call that fails because another process holds the
\* lock leaves the lock file as the holder wrote it: the file still exists
\* and still contains the holder's pid.
C38_FailedAcquireKeepsContent ==
    [][\A p \in Procs, q \in Procs :
        (AcquireReturnsFalse(p) /\ q # p /\ InSession(q) /\ flock_owner[ofd[p]] = q) =>
            /\ lock_file' = lock_fd[q]
            /\ inode_data'[lock_file'] = q]_vars

\* C33: across any interleaving of concurrent main() invocations at most one
\* executes app() at a time; an invocation that finds the lock file present
\* exits without running app() and without removing the lock file; and an
\* invocation that ran app() leaves no lock file of its own behind when
\* app() has ended.
C33_OneAppAtATime ==
    [][/\ \A p \in Procs, q \in Procs : (pc'[p] = "m_app" /\ pc'[q] = "m_app") => p = q
       /\ \A p \in Procs :
            /\ (pc[p] = "rejected" /\ pc'[p] # "rejected") =>
                    (pc'[p] = "idle" /\ lock_file' = lock_file)
            /\ (pc[p] \in {"m_finally", "m_unlink"} /\ pc'[p] = "m_done") =>
                    lock_file' = NoFile]_vars

\* C35: the stage list is built once per launcher and never changed
\* afterwards: launching a stage, a failed attempt, cleanup and the
\* diagnostics sweep leave its length, order and flags as they were, so the
\* stage tried at attempt k is the k-th stage of the list as first built.
C35_StageListFrozen ==
    [][/\ (pc[Orch] # "idle" /\ pc'[Orch] # "idle") => launch_stages' = launch_stages
       /\ \A k \in 1..Len(attempts') : attempts'[k].strategy = launch_stages'[k].name]_vars

\* Two stages have failed, each followed by cleanup and a diagnostics sweep,
\* and the third is being launched from the list the constructor built.
C35_Witness ==
    /\ pc[Orch] = "launch"
    /\ Len(attempts) = 2
    /\ sweeps = 2
    /\ Len(launch_stages) >= 3
    /\ launch_stages[1].name = "vanilla"
    /\ attempts[2].strategy = launch_stages[2].name

\* C40: after any run of the stage loop at most one recorded Attempt is
\* successful, and if so it is the last; the session result is Success
\* exactly when the last Attempt was Stable or, after exhaustion, the fallback
\* launched; and the launch summary reports successful = TRUE exactly when the
\* session result is Success.
C40_SummaryMatchesResult ==
    LoopEnded =>
        /\ \A k \in 1..(Len(attempts) - 1) : ~attempts[k].success
        /\ returned = "success" <=> (Len(attempts) > 0 /\ attempts[Len(attempts)].success)
        /\ returned \in {"fallback", "fallback_exec"} => fallback
        /\ pc[Orch] \in {"a_finally", "a_await", "a_done"} =>
              (get_launch_summary.successful <=> returned \in {"success", "fallback"})

\* C39: when the diagnostics task has ended, by finishing or by being
\* cancelled, every helper process it spawned (dmesg follower, journal
\* follower) has been terminated.
C39_NoHelperOutlivesTask ==
    dpc \in {"finished", "cancelled"} => \A h \in Helpers : helper[h] # "running"

\* C32: however the configuration reached the launcher (defaults,
\* environment variables, config file, command-line override), the stability
\* window per attempt is within [5, 300] seconds and the attempt cap within
\* [1, 10].
C32_ConfigInRange ==
    cfg_pc = "launcher" =>
        /\ config.launch_timeout \in 5..300
        /\ config.max_attempts \in 1..10

\* C31: no logger operation, the rotation of old sessions at construction
\* included, removes or archives the directory of the session the logger is
\* writing: the session directory exists at every log write and every entry
\* written so far is still on disk.
C31_OwnSessionKept ==
    ctor.at \in {"session_started", "ready"} =>
        /\ cache_dir[ctor.session_dir].exists
        /\ ctor.session_dir \notin archives
        /\ cache_dir[ctor.session_dir].lines = ctor.log_count

\* timestamp, level, source and content of the k-th entry of a sink
EntriesOf(sink) ==
    [k \in 1..Len(sink) |->
        [ts |-> sink[k].ts, level |-> sink[k].level, source |-> sink[k].source,
         content |-> sink[k].content]]

\* C37: whenever no log call is in progress, all enabled sinks (text log,
\* JSONL, SQLite) hold the same sequence of entries, in the same order and
\* with the same timestamp, level, source and content, from the
\* session-started entry on.
C37_SinksAgree ==
    Quiescent =>
        /\ Len(text_log) > 0 /\ text_log[1] = formatted_msg(SessionStarted)
        /\ enable_sqlite => EntriesOf(sqlite_rows) = EntriesOf(text_log)
        /\ enable_json =>
              EntriesOf([k \in 1..Len(jsonl_lines) |-> loads(jsonl_lines[k])]) = EntriesOf(text_log)

\* C36: StructuredLogger.close() always terminates: the thread inside
\* close() never waits for a lock that only its own return would release, so
\* close(), and leaving a `with StructuredLogger(...)` block, returns after
\* writing the session-ended entries.
C36_CloseTerminates ==
    \A t \in Threads : (closer.by = t /\ lpc[t] = "lock") => lock_owner # t

\* C34: inside capture_output a write to stdout or stderr returns to its
\* caller: the logger's own console echo is not captured again, so no thread
\* ends up waiting in a nested log call; and outside the block sys.stdout and
\* sys.stderr are the objects they were before.
C34_CaptureReturnsAndRestores ==
    /\ \A t \in Threads : lpc[t] # "echo"
    /\ capture.by = 0 => sys_stdout = "console"

====
